---- MODULE Spec2Model ----
(***************************************************************************)
(* Mask synthesis of the CV application's photo-editing routes.            *)
(*                                                                         *)
(*   - the geometric ellipse mask (createBackgroundMask of the cv/[id]     *)
(*     route and of its earlier draft), one loop row per step;             *)
(*   - the heuristic subject/background classifier of the edit-photo       *)
(*     route (Sobel edge map, colour clusters, background score map,       *)
(*     composite classification, binary cleanup, edge smoothing).          *)
(*                                                                         *)
(* Arithmetic.  The code computes in IEEE doubles; the model computes the  *)
(* same quantities exactly, as fractions of integers.  A square root is    *)
(* never taken: sqrt(u) <= v is decided as u <= v*v on non-negative        *)
(* operands, and fractions are compared by continued-fraction expansion    *)
(* (LeqFrac) so that no product leaves the range of 32-bit integers.       *)
(* A pixel is the tuple <<R, G, B, A>> (mask) or <<R, G, B>> (image).      *)
(*                                                                         *)
(* Around the mask synthesis the module also holds                         *)
(*   - the classifier on uniform rasters of any size, and the mask         *)
(*     diagnostics (analyzeMaskDistribution, getQualityRecommendation);    *)
(*   - two invocations of createBackgroundMask running interleaved;        *)
(*   - the in-memory rate limiter of the two photo routes;                 *)
(*   - the mock CV store of pages/api/cv;                                  *)
(*   - the install banner of the PWAStatus component;                      *)
(*   - POST of the edit-photo route with generate_professional_edited_photo *)
(*     and its race between the image API and the 60 s timer.              *)
(* Each specification runs one of these and leaves the others idle.        *)
(***************************************************************************)
EXTENDS Integers, Sequences, FiniteSets, TLC

VARIABLES
    eVariant,   \* ellipse: which source file's radii (1: cv/[id] route, 2: draft)
    eW,         \* ellipse: width argument
    eH,         \* ellipse: height argument
    eMask,      \* ellipse: maskData rows written so far (row y is eMask[y+1])
    eReturned,  \* ellipse: TRUE once createBackgroundMask has returned the buffer
    hW,         \* classifier: width
    hH,         \* classifier: height
    hImage,     \* classifier: imageData, pixel index -> <<R, G, B>>
    hEdge,      \* classifier: edgeMap, pixel index -> gradient^2 (the code stores the root)
    hClusters,  \* classifier: colorClusters = [dominantColors, totalSamples]
    hBackground,\* classifier: backgroundAreas, pixel index -> score * totalSamples
    hRaw,       \* classifier: rawMaskData, pixel index -> <<R, G, B, A>>
    hCleaned,   \* classifier: cleanedMask of cleanMaskArtifacts (after thresholding)
    hMask,      \* classifier: smoothedMask, the mask cleanMaskArtifacts returns
    hPc,        \* classifier: position in createBackgroundMask
    hWarnings,  \* classifier: the console.warn lines emitted by the validation
    hDebugSaved,\* classifier: whether fs.writeFile of the debug mask succeeded
    hAnalysis,  \* classifier: maskAnalysis, <<>> when the analysis was not reached
    hResult,    \* classifier: the buffer createBackgroundMask returns
    uW,         \* uniform raster: width
    uH,         \* uniform raster: height
    uColor,     \* uniform raster: the colour of every pixel
    uClusters,  \* uniform raster: colorClusters
    uScores,    \* uniform raster: the distinct values of the background-score map
    uNearBorder,\* uniform raster: number of pixels with border distance < 50
    uNearBackground, \* uniform raster: how many of those are classified background
    uBackground,\* uniform raster: number of pixels classified background
    uAlphas,    \* uniform raster: the alpha values of the mask cleanMaskArtifacts returns
    uPc,        \* uniform raster: position
    qW,         \* diagnostics: width
    qH,         \* diagnostics: height
    qMask,      \* diagnostics: maskData handed to analyzeMaskDistribution
    qAnalysis,  \* diagnostics: the object it returns, <<>> before the call
    cImage,     \* invocations: call -> its input raster
    cPc,        \* invocations: call -> position in createBackgroundMask
    cMask,      \* invocations: call -> its cleanedMaskData / maskBuffer
    cReturned,  \* invocations: call -> the buffer it returned, <<>> before
    cSaved,     \* invocations: call -> whether its fs.writeFile succeeded
    debugFile,  \* invocations: content of public/DEBUG_generated_mask.png
    rlMax,      \* rate limiter: RATE_LIMIT.maxRequestsPerMinute of the route
    rlNow,      \* rate limiter: Date.now()
    rateLimitMap,\* rate limiter: ip -> [count, resetTime], <<>> when absent
    rlLog,      \* rate limiter: the calls so far, [ip, now, ok, opened]
    mockCVs,    \* CV store: the module-level array
    sClock,     \* CV store: Date.now()
    sResponse,  \* CV store: status and body of the last response
    sPosted,    \* CV store: the POST requests accepted so far, [email, body]
    isInstalled,       \* PWAStatus: React state
    deferredPrompt,    \* PWAStatus: React state, TRUE when an event is held
    showInstallPrompt, \* PWAStatus: React state
    dismissed,         \* PWAStatus: React state
    pwaStorage,        \* PWAStatus: localStorage['pwa-install-dismissed']
    pwaStandalone,     \* PWAStatus: display-mode standalone / navigator.standalone
    pwaListener,       \* PWAStatus: <<dismissed, isInstalled>> closed over by the
                       \* registered beforeinstallprompt listener, <<>> when none
    pwaEffectPending,  \* PWAStatus: the effect is due (mount or dependency change)
    pwaPrompting,      \* PWAStatus: handleInstallClick is awaiting the user's choice
    pwaDismissRan,     \* PWAStatus: handleDismiss has run
    openai,     \* edit-photo POST: TRUE when the module-level client is not null
    pPc,        \* edit-photo POST: position of the request being handled
    pReq,       \* edit-photo POST: the request, [ip, form], <<>> before the first
    pResponse,  \* edit-photo POST: the response, <<>> while the handler runs
    pRaces      \* edit-photo POST: one record per Promise.race started,
                \* [request, api, timer, settled]

ellipseVars == <<eVariant, eW, eH, eMask, eReturned>>

heurVars == <<hW, hH, hImage, hEdge, hClusters, hBackground, hRaw, hCleaned, hMask, hPc,
              hWarnings, hDebugSaved, hAnalysis, hResult>>

uniformVars == <<uW, uH, uColor, uClusters, uScores, uNearBorder, uNearBackground, uBackground,
                 uAlphas, uPc>>

qualityVars == <<qW, qH, qMask, qAnalysis>>

callVars == <<cImage, cPc, cMask, cReturned, cSaved, debugFile>>

rateVars == <<rlMax, rlNow, rateLimitMap, rlLog>>

storeVars == <<mockCVs, sClock, sResponse, sPosted>>

pwaVars == <<isInstalled, deferredPrompt, showInstallPrompt, dismissed, pwaStorage,
             pwaStandalone, pwaListener, pwaEffectPending, pwaPrompting, pwaDismissRan>>

postVars == <<openai, pPc, pReq, pResponse, pRaces>>

\* Everything outside the two mask generators.
appVars == <<uniformVars, qualityVars, callVars, rateVars, storeVars, pwaVars, postVars>>

vars == <<ellipseVars, heurVars, appVars>>

\* No uniform raster is being classified.
UniformIdle ==
    /\ uW = 0 /\ uH = 0 /\ uColor = <<>> /\ uClusters = <<>> /\ uScores = {}
    /\ uNearBorder = 0 /\ uNearBackground = 0 /\ uBackground = 0 /\ uAlphas = {}
    /\ uPc = "idle"

\* analyzeMaskDistribution is not running.
QualityIdle == qW = 0 /\ qH = 0 /\ qMask = <<>> /\ qAnalysis = <<>>

\* No invocation of createBackgroundMask is in progress.
CallsIdle ==
    /\ cImage = <<>> /\ cPc = <<>> /\ cMask = <<>> /\ cReturned = <<>> /\ cSaved = <<>>
    /\ debugFile = <<>>

\* No request has reached checkRateLimit.
RateIdle == rlMax = 0 /\ rlNow = 0 /\ rateLimitMap = <<>> /\ rlLog = <<>>

\* const mockCVs: any[] = [] and no request handled.
StoreIdle == mockCVs = <<>> /\ sClock = 0 /\ sResponse = <<>> /\ sPosted = <<>>

\* The edit-photo route has received no request.
PostIdle ==
    /\ openai = FALSE /\ pPc = "idle" /\ pReq = <<>> /\ pResponse = <<>> /\ pRaces = <<>>

\* PWAStatus is not mounted.
PWAIdle ==
    /\ isInstalled = FALSE /\ deferredPrompt = FALSE /\ showInstallPrompt = FALSE
    /\ dismissed = FALSE /\ pwaStorage = "null" /\ pwaStandalone = FALSE
    /\ pwaListener = <<>> /\ pwaEffectPending = FALSE /\ pwaPrompting = FALSE
    /\ pwaDismissRan = FALSE

----------------------------------------------------------------------------
(* Exact arithmetic helpers *)

Min2(a, b) == IF a <= b THEN a ELSE b

RECURSIVE GCD(_, _)
GCD(a, b) == IF b = 0 THEN a ELSE GCD(b, a % b)

\* a/b <= c/d for a, c >= 0 and b, d > 0, without forming a*d or b*c.
RECURSIVE LeqFrac(_, _, _, _)
LeqFrac(a, b, c, d) ==
    LET qa == a \div b
        qc == c \div d
        ra == a % b
        rc == c % d
    IN  IF qa # qc THEN qa < qc
        ELSE IF ra = 0 THEN TRUE
        ELSE IF rc = 0 THEN FALSE
        ELSE LeqFrac(d, rc, b, ra)

----------------------------------------------------------------------------
(* Geometric ellipse mask: createBackgroundMask(width, height) *)

\* The default and only call-site dimensions: createBackgroundMask(512, 512).
DefaultSize == 512

\* The smallest width whose radius 0.35 * width is a whole number of pixels (7).
OnEllipseSize == 20

\* Largest width and height of the small rasters the general claims run on.
MaxEllipseDim == 10

\* protectedRadiusX = width * 0.35 (resp. 0.25), in hundredths of the width.
RadiusXPct(variant) == IF variant = 1 THEN 35 ELSE 25

\* protectedRadiusY = height * 0.4 (resp. 0.3), in hundredths of the height.
RadiusYPct(variant) == IF variant = 1 THEN 40 ELSE 30

\* distance^2 = normalizedX^2 + normalizedY^2 as the fraction <<num, den>>, with
\*   normalizedX = (x - width/2) / (width * RadiusXPct/100)  = 50(2x - w) / RX
\*   normalizedY = (y - height/2) / (height * RadiusYPct/100) = 50(2y - h) / RY
\* where RX = w * RadiusXPct and RY = h * RadiusYPct; the common factors of RX, RY
\* and 50 are divided out before squaring.
Distance2(variant, w, h, x, y) ==
    LET a  == 2 * x - w
        b  == 2 * y - h
        RX == w * RadiusXPct(variant)
        RY == h * RadiusYPct(variant)
        g  == GCD(RX, RY)
        p  == RX \div g
        q  == RY \div g
        m  == a * a * q * q + b * b * p * p
        k  == GCD(50, g * p * q)
        k1 == 50 \div k
        k2 == (g * p * q) \div k
    IN  <<m * k1 * k1, k2 * k2>>

\* floor(255 * (1.3 - d) / 0.3) for d^2 = n/m in the transition zone: the greatest
\* k in lo..hi with d <= (3315 - 3k) / 2550, found by bisection.
RECURSIVE FalloffFloor(_, _, _, _)
FalloffFloor(n, m, lo, hi) ==
    IF lo = hi THEN lo
    ELSE LET mid == (lo + hi + 1) \div 2
         IN  IF LeqFrac(n, m, (3315 - 3 * mid) * (3315 - 3 * mid), 2550 * 2550)
             THEN FalloffFloor(n, m, mid, hi)
             ELSE FalloffFloor(n, m, lo, mid - 1)

\* A sign slip in the falloff: rising with the distance instead of falling.
EllipseAlphaRising(variant, w, h, x, y) ==
    LET d2 == Distance2(variant, w, h, x, y)
    IN  IF d2[1] <= d2[2] THEN 255
        ELSE IF LeqFrac(d2[1], d2[2], 169, 100) THEN 255 - FalloffFloor(d2[1], d2[2], 0, 255)
        ELSE 0

\* No transition zone: everything outside the ellipse is editable.
EllipseAlphaHardEdge(variant, w, h, x, y) ==
    LET d2 == Distance2(variant, w, h, x, y)
    IN  IF d2[1] <= d2[2] THEN 255 ELSE 0

\* The local variable alpha of the loop body:
\*   distance <= 1.0 -> 255
\*   distance <= 1.3 -> floor(255 * max(0, (1.3 - distance) / 0.3))
\*   otherwise       -> 0
EllipseAlpha(variant, w, h, x, y) ==
    LET d2 == Distance2(variant, w, h, x, y)
    IN  IF d2[1] <= d2[2] THEN 255
        ELSE IF LeqFrac(d2[1], d2[2], 169, 100) THEN FalloffFloor(d2[1], d2[2], 0, 255)
        ELSE 0

\* maskData[idx..idx+3] = alpha, alpha, alpha, 255
EllipsePixel(variant, w, h, x, y) ==
    LET alpha == EllipseAlpha(variant, w, h, x, y)
    IN  <<alpha, alpha, alpha, 255>>

\* One iteration of the outer loop (for y): the inner loop writes row y.
EllipseRow ==
    /\ ~eReturned
    /\ Len(eMask) < eH
    /\ LET y == Len(eMask)
       IN  eMask' = Append(eMask, [c \in 1..eW |-> EllipsePixel(eVariant, eW, eH, c - 1, y)])
    /\ UNCHANGED <<eVariant, eW, eH, eReturned, heurVars, appVars>>

\* After the last row the buffer is PNG-encoded and returned.
EllipseReturn ==
    /\ ~eReturned
    /\ Len(eMask) = eH
    /\ eReturned' = TRUE
    /\ UNCHANGED <<eVariant, eW, eH, eMask, heurVars, appVars>>

\* The classifier is not running.
HeurIdle ==
    /\ hW = 0 /\ hH = 0
    /\ hImage = <<>> /\ hEdge = <<>> /\ hClusters = <<>> /\ hBackground = <<>>
    /\ hRaw = <<>> /\ hCleaned = <<>> /\ hMask = <<>>
    /\ hPc = "idle"
    /\ hWarnings = {} /\ hDebugSaved = FALSE /\ hAnalysis = <<>> /\ hResult = <<>>

\* Nothing outside the two mask generators is running.
AppIdle ==
    /\ UniformIdle /\ QualityIdle /\ CallsIdle /\ RateIdle /\ StoreIdle /\ PWAIdle
    /\ PostIdle

EllipseInit(dims) ==
    /\ HeurIdle
    /\ AppIdle
    /\ eVariant \in {1, 2}
    /\ \E d \in dims : eW = d[1] /\ eH = d[2]
    /\ eMask = <<>>
    /\ eReturned = FALSE

EllipseNext ==
    \/ EllipseRow
    \/ EllipseReturn

\* Small rasters of every shape, both radius settings.
SpecEllipse == EllipseInit((1..MaxEllipseDim) \X (1..MaxEllipseDim)) /\ [][EllipseNext]_vars

\* The call the routes make, createBackgroundMask(512, 512), and the smallest
\* square raster with pixels lying exactly on the protected ellipse.
SpecEllipse512 ==
    /\ EllipseInit({<<DefaultSize, DefaultSize>>, <<OnEllipseSize, OnEllipseSize>>})
    /\ [][EllipseNext]_vars

\* Pixels of the rows written so far, as <<x, y>>.
EllipseWritten == {xy \in (0..(eW - 1)) \X (0..(Len(eMask) - 1)) : TRUE}

\* The value written to the R, G and B channels of pixel <<x, y>>.
EllipseValue(xy) == eMask[xy[2] + 1][xy[1] + 1][1]

EllipseD2(xy) == Distance2(eVariant, eW, eH, xy[1], xy[2])

\* d <= 1.0
EllipseInside(xy) == EllipseD2(xy)[1] <= EllipseD2(xy)[2]

\* d > 1.3
EllipseOutside(xy) == ~LeqFrac(EllipseD2(xy)[1], EllipseD2(xy)[2], 169, 100)

EllipseInBand(xy) == ~EllipseInside(xy) /\ ~EllipseOutside(xy)

\* d(p) <= d(q)
EllipseNotFarther(p, q) ==
    LeqFrac(EllipseD2(p)[1], EllipseD2(p)[2], EllipseD2(q)[1], EllipseD2(q)[2])

\* C3: in the ellipse mask every pixel with d <= 1.0 has value 255, every pixel
\* with d > 1.3 has value 0, and among the pixels of the band 1.0 < d <= 1.3 a
\* pixel with a larger d never has a larger value.
C3_EllipseBands ==
    /\ \A p \in EllipseWritten :
          /\ EllipseInside(p) => EllipseValue(p) = 255
          /\ EllipseOutside(p) => EllipseValue(p) = 0
    /\ \A p \in {xy \in EllipseWritten : xy[2] = Len(eMask) - 1 /\ EllipseInBand(xy)} :
          \A q \in {xy \in EllipseWritten : EllipseInBand(xy)} :
              /\ EllipseNotFarther(p, q) => EllipseValue(q) <= EllipseValue(p)
              /\ EllipseNotFarther(q, p) => EllipseValue(p) <= EllipseValue(q)

\* A finished mask with a pixel exactly on the ellipse (d = 1.0), a pixel outside
\* the band, and two band pixels of different distance and different value.
C3_Witness ==
    /\ eReturned
    /\ \E p \in EllipseWritten : EllipseD2(p)[1] = EllipseD2(p)[2] /\ EllipseValue(p) = 255
    /\ \E p \in EllipseWritten : EllipseOutside(p) /\ EllipseValue(p) = 0
    /\ \E p, q \in EllipseWritten :
          /\ EllipseInBand(p) /\ EllipseInBand(q)
          /\ ~EllipseNotFarther(q, p)
          /\ 0 < EllipseValue(q) /\ EllipseValue(q) < EllipseValue(p)

\* C4 (as claimed): every pixel has R = G = B = A, a pixel with d > 1.3 has
\* alpha channel 0 and a pixel with d <= 1.0 has alpha channel 255.
C4_RgbEqualsAlphaChannel ==
    \A p \in EllipseWritten :
        LET px == eMask[p[2] + 1][p[1] + 1]
        IN  /\ px[1] = px[4] /\ px[2] = px[4] /\ px[3] = px[4]
            /\ EllipseOutside(p) => px[4] = 0
            /\ EllipseInside(p) => px[4] = 255

IsScenario512 == eVariant = 1 /\ eW = DefaultSize /\ eH = DefaultSize

\* C5 (amended): in the 512x512 mask with rx = 0.35*512 and ry = 0.4*512, pixel
\* (256,256) has value 255, pixel (256,10) lies in the falloff band and has value
\* 84, pixel (10,256) has value 0, and a pixel with d exactly 1.0 has value 255.
C5_Scenario512 ==
    /\ (IsScenario512 /\ Len(eMask) > 256) =>
          /\ EllipseValue(<<256, 256>>) = 255
          /\ EllipseValue(<<10, 256>>) = 0
    /\ (IsScenario512 /\ Len(eMask) > 10) =>
          /\ EllipseInBand(<<256, 10>>)
          /\ EllipseValue(<<256, 10>>) = 84
    /\ eVariant = 1 =>
          \A p \in {xy \in EllipseWritten : xy[2] = Len(eMask) - 1} :
              EllipseD2(p)[1] = EllipseD2(p)[2] => EllipseValue(p) = 255

\* The loop over the 512x512 raster has just written row 10, whose pixel
\* (256,10) lies in the falloff band.
C5_Witness ==
    /\ IsScenario512 /\ Len(eMask) = 11
    /\ EllipseInBand(<<256, 10>>) /\ EllipseValue(<<256, 10>>) = 84

\* C5 (as claimed): pixel (256,10) of that mask has value 0.
C5_Pixel256_10_IsZero ==
    (IsScenario512 /\ Len(eMask) > 10) => EllipseValue(<<256, 10>>) = 0

----------------------------------------------------------------------------
(* Heuristic subject/background classifier: createBackgroundMask of edit-photo *)

SampleStep == 8
QuantStep == 32
TopColors == 5
EdgeThreshold == 30
ColorThreshold == 60
LowEdgeLimit == 25
BorderWidth == 50
TransparencyThreshold == 10

Transparent == <<0, 0, 0, 0>>
Opaque == <<255, 255, 255, 255>>

Pixels(w, h) == 0..(w * h - 1)

\* getGrayscale: Math.round(0.299 r + 0.587 g + 0.114 b), rounding half up.
GetGrayscale(imageData, pixelIndex) ==
    LET px == imageData[pixelIndex]
    IN  (299 * px[1] + 587 * px[2] + 114 * px[3] + 500) \div 1000

\* gradient^2 = sobelX^2 + sobelY^2 at the interior pixel (x, y).
SobelGradient2(imageData, w, x, y) ==
    LET tl == GetGrayscale(imageData, (y - 1) * w + (x - 1))
        tm == GetGrayscale(imageData, (y - 1) * w + x)
        tr == GetGrayscale(imageData, (y - 1) * w + (x + 1))
        ml == GetGrayscale(imageData, y * w + (x - 1))
        mr == GetGrayscale(imageData, y * w + (x + 1))
        bl == GetGrayscale(imageData, (y + 1) * w + (x - 1))
        bm == GetGrayscale(imageData, (y + 1) * w + x)
        br == GetGrayscale(imageData, (y + 1) * w + (x + 1))
        sobelX == (tr + 2 * mr + br) - (tl + 2 * ml + bl)
        sobelY == (bl + 2 * bm + br) - (tl + 2 * tm + tr)
    IN  sobelX * sobelX + sobelY * sobelY

\* The loop run over the whole raster, neighbours clamped to the raster.
EdgeMapWholeRaster(imageData, w, h) ==
    [idx \in Pixels(w, h) |->
        LET x == idx % w
            y == idx \div w
            Cx(v) == IF v < 0 THEN 0 ELSE IF v > w - 1 THEN w - 1 ELSE v
            Cy(v) == IF v < 0 THEN 0 ELSE IF v > h - 1 THEN h - 1 ELSE v
            G(dx, dy) == GetGrayscale(imageData, Cy(y + dy) * w + Cx(x + dx))
            sobelX == (G(1, -1) + 2 * G(1, 0) + G(1, 1)) - (G(-1, -1) + 2 * G(-1, 0) + G(-1, 1))
            sobelY == (G(-1, 1) + 2 * G(0, 1) + G(1, 1)) - (G(-1, -1) + 2 * G(0, -1) + G(1, -1))
        IN  sobelX * sobelX + sobelY * sobelY]

\* The Sobel loop runs over 1 <= y < height-1, 1 <= x < width-1; every other
\* entry of the freshly allocated Float32Array stays 0.
EdgeMap(imageData, w, h) ==
    [idx \in Pixels(w, h) |->
        LET x == idx % w
            y == idx \div w
        IN  IF 1 <= x /\ x < w - 1 /\ 1 <= y /\ y < h - 1
            THEN SobelGradient2(imageData, w, x, y)
            ELSE 0]

\* Math.floor(c / 32) * 32 on each channel.
Quantize(px) ==
    <<(px[1] \div QuantStep) * QuantStep,
      (px[2] \div QuantStep) * QuantStep,
      (px[3] \div QuantStep) * QuantStep>>

\* The quantized colours of the sampled pixels, in scan order (y outer, x inner,
\* both in steps of 8 from 0).
SampledColors(imageData, w, h) ==
    LET nx == (w + SampleStep - 1) \div SampleStep
        ny == (h + SampleStep - 1) \div SampleStep
    IN  [k \in 1..(nx * ny) |->
            LET x == ((k - 1) % nx) * SampleStep
                y == ((k - 1) \div nx) * SampleStep
            IN  Quantize(imageData[y * w + x])]

\* analyzeColorClusters: tally the sampled colours, sort by count descending (the
\* sort is stable, ties keep the insertion order of colorMap, which is the order of
\* first occurrence), keep the first 5; totalSamples is floor(width * height / 64).
AnalyzeColorClusters(imageData, w, h) ==
    LET samples == SampledColors(imageData, w, h)
        first   == {k \in 1..Len(samples) : \A j \in 1..(k - 1) : samples[j] # samples[k]}
        count   == [k \in first |->
                      Cardinality({j \in 1..Len(samples) : samples[j] = samples[k]})]
        rank    == [k \in first |->
                      Cardinality({j \in first :
                          \/ count[j] > count[k]
                          \/ count[j] = count[k] /\ j < k})]
        kept    == Min2(TopColors, Cardinality(first))
    IN  [dominantColors |->
            [r \in 1..kept |->
                LET k == CHOOSE k \in first : rank[k] = r - 1
                IN  [rgb |-> samples[k], frequency |-> count[k]]],
         totalSamples |-> (w * h) \div (SampleStep * SampleStep)]

\* The similarity threshold taken inclusively.
ColorNearInclusive(px, rgb) ==
    LET dr == px[1] - rgb[1]
        dg == px[2] - rgb[2]
        db == px[3] - rgb[3]
    IN  dr * dr + dg * dg + db * db <= ColorThreshold * ColorThreshold

\* colorDistance < 60, squared.
ColorNear(px, rgb) ==
    LET dr == px[1] - rgb[1]
        dg == px[2] - rgb[2]
        db == px[3] - rgb[3]
    IN  dr * dr + dg * dg + db * db < ColorThreshold * ColorThreshold

RECURSIVE SumFrequencies(_, _, _)
SumFrequencies(dominantColors, px, k) ==
    IF k = 0 THEN 0
    ELSE SumFrequencies(dominantColors, px, k - 1)
         + (IF ColorNear(px, dominantColors[k].rgb) THEN dominantColors[k].frequency ELSE 0)

\* The edge test inverted: only the high-edge pixels are scored.
DetectBackgroundAreasInverted(imageData, edgeMap, w, h, colorClusters) ==
    [i \in Pixels(w, h) |->
        IF edgeMap[i] >= EdgeThreshold * EdgeThreshold
        THEN SumFrequencies(colorClusters.dominantColors, imageData[i],
                            Len(colorClusters.dominantColors))
        ELSE 0]

\* detectBackgroundAreas: for gradient < 30 the score is the sum of
\* frequency / totalSamples over the dominant colours nearer than 60; the map
\* holds the numerator of that sum, the denominator being totalSamples.
DetectBackgroundAreas(imageData, edgeMap, w, h, colorClusters) ==
    [i \in Pixels(w, h) |->
        IF edgeMap[i] < EdgeThreshold * EdgeThreshold
        THEN SumFrequencies(colorClusters.dominantColors, imageData[i],
                            Len(colorClusters.dominantColors))
        ELSE 0]

\* The border bias left out of the sum.
IsBackgroundPixelNoBorder(x, y, idx, edgeMap, backgroundAreas, w, h, colorClusters) ==
    LET edgeScore  == IF edgeMap[idx] < LowEdgeLimit * LowEdgeLimit THEN 4 ELSE 0
        n == backgroundAreas[idx]
        T == colorClusters.totalSamples
        D == IF T = 0 THEN 1 ELSE T
        rest == 5 * D - edgeScore * D - 10 * n
        c2 == (2 * x - w) * (2 * x - w) + (2 * y - h) * (2 * y - h)
        m2 == w * w + h * h
    IN  IF T = 0 /\ n > 0 THEN TRUE
        ELSE IF rest < 0 THEN TRUE
        ELSE ~LeqFrac(c2, m2, rest * rest, 4 * D * D)

\* isBackgroundPixel: borderBias + edgeScore + colorScore + centerBias > 0.5.
\* In tenths, with T = totalSamples and n = backgroundAreas numerator:
\*   (B + E)/10 + n/T + (2/10) * centerDistance/maxDistance > 5/10
\*   <=>  centerDistance/maxDistance > (5T - (B + E)T - 10n) / (2T)
\* centerDistance^2 / maxDistance^2 = ((2x-w)^2 + (2y-h)^2) / (w^2 + h^2).
\* totalSamples = 0 makes every added frequency/0 infinite.
IsBackgroundPixel(x, y, idx, edgeMap, backgroundAreas, w, h, colorClusters) ==
    LET borderDistance == Min2(Min2(x, y), Min2(w - x - 1, h - y - 1))
        borderBias == IF borderDistance < BorderWidth THEN 3 ELSE 0
        edgeScore  == IF edgeMap[idx] < LowEdgeLimit * LowEdgeLimit THEN 4 ELSE 0
        n == backgroundAreas[idx]
        T == colorClusters.totalSamples
        D == IF T = 0 THEN 1 ELSE T
        rest == 5 * D - (borderBias + edgeScore) * D - 10 * n
        c2 == (2 * x - w) * (2 * x - w) + (2 * y - h) * (2 * y - h)
        m2 == w * w + h * h
    IN  IF T = 0 /\ n > 0 THEN TRUE
        ELSE IF rest < 0 THEN TRUE
        ELSE ~LeqFrac(c2, m2, rest * rest, 4 * D * D)

\* Step 4 of createBackgroundMask: background -> (0,0,0,0), subject -> (255,255,255,255).
RawMask(edgeMap, backgroundAreas, w, h, colorClusters) ==
    [idx \in Pixels(w, h) |->
        IF IsBackgroundPixel(idx % w, idx \div w, idx, edgeMap, backgroundAreas, w, h, colorClusters)
        THEN Transparent
        ELSE Opaque]

\* Only the alpha channel forced; R, G and B copied from the input.
ThresholdAlphaOnly(rawMaskData, w, h) ==
    [i \in Pixels(w, h) |->
        LET px == rawMaskData[i]
        IN  <<px[1], px[2], px[3], IF px[4] < TransparencyThreshold THEN 0 ELSE 255>>]

\* The opaque branch pasted from the transparent one with only alpha changed.
ThresholdBlackOpaque(rawMaskData, w, h) ==
    [i \in Pixels(w, h) |->
        IF rawMaskData[i][4] < TransparencyThreshold THEN Transparent ELSE <<0, 0, 0, 255>>]

\* The thresholding loop of cleanMaskArtifacts: alpha < 10 -> (0,0,0,0), else
\* (255,255,255,255).
ThresholdMask(rawMaskData, w, h) ==
    [i \in Pixels(w, h) |->
        IF rawMaskData[i][4] < TransparencyThreshold THEN Transparent ELSE Opaque]

\* A blur: the boundary pixel takes the average of its neighbours.
SmoothedPixelBlur(maskData, w, h, i) ==
    LET x == i % w
        y == i \div w
        alpha == maskData[i][4]
        top    == maskData[(y - 1) * w + x][4]
        bottom == maskData[(y + 1) * w + x][4]
        left   == maskData[y * w + (x - 1)][4]
        right  == maskData[y * w + (x + 1)][4]
        neighbors == <<top, bottom, left, right>>
        hasOppositeNeighbor ==
            \E k \in 1..4 : \/ alpha = 0 /\ neighbors[k] = 255
                            \/ alpha = 255 /\ neighbors[k] = 0
        avg == (top + bottom + left + right) \div 4
    IN  IF ~(1 <= x /\ x < w - 1 /\ 1 <= y /\ y < h - 1) THEN maskData[i]
        ELSE IF ~(alpha = 0 \/ alpha = 255) THEN maskData[i]
        ELSE IF ~hasOppositeNeighbor THEN maskData[i]
        ELSE <<avg, avg, avg, avg>>

\* One pixel of applyEdgeSmoothing, reading maskData only.
SmoothedPixel(maskData, w, h, i) ==
    LET x == i % w
        y == i \div w
        alpha == maskData[i][4]
        top    == maskData[(y - 1) * w + x][4]
        bottom == maskData[(y + 1) * w + x][4]
        left   == maskData[y * w + (x - 1)][4]
        right  == maskData[y * w + (x + 1)][4]
        neighbors == <<top, bottom, left, right>>
        hasOppositeNeighbor ==
            \E k \in 1..4 : \/ alpha = 0 /\ neighbors[k] = 255
                            \/ alpha = 255 /\ neighbors[k] = 0
        sum == top + bottom + left + right      \* avgNeighbor = sum / 4
    IN  IF ~(1 <= x /\ x < w - 1 /\ 1 <= y /\ y < h - 1) THEN maskData[i]
        ELSE IF ~(alpha = 0 \/ alpha = 255) THEN maskData[i]
        ELSE IF ~hasOppositeNeighbor THEN maskData[i]
        ELSE IF (alpha = 0 /\ sum < 4 * 64) \/ (alpha = 255 /\ sum > 4 * 191) THEN maskData[i]
        ELSE IF sum > 4 * 127 THEN Opaque
        ELSE Transparent

\* The pass run in place: pixel i is decided on a mask whose pixels 0..i-1 are
\* already rewritten.
RECURSIVE SmoothInPlace(_, _, _, _)
SmoothInPlace(maskData, w, h, n) ==
    IF n = 0 THEN maskData
    ELSE LET prev == SmoothInPlace(maskData, w, h, n - 1)
         IN  [prev EXCEPT ![n - 1] = SmoothedPixel(prev, w, h, n - 1)]

ApplyEdgeSmoothingInPlace(maskData, w, h) == SmoothInPlace(maskData, w, h, w * h)

\* applyEdgeSmoothing: a copy of maskData with the interior boundary pixels rewritten.
ApplyEdgeSmoothing(maskData, w, h) ==
    [i \in Pixels(w, h) |-> SmoothedPixel(maskData, w, h, i)]

\* cleanMaskArtifacts: thresholding, then edge smoothing of the thresholded mask.
CleanMaskArtifacts(rawMaskData, w, h) ==
    ApplyEdgeSmoothing(ThresholdMask(rawMaskData, w, h), w, h)

\* Step 2: the edge map.
DetectEdges ==
    /\ hPc = "called"
    /\ hEdge' = EdgeMap(hImage, hW, hH)
    /\ hPc' = "edges"
    /\ UNCHANGED <<hW, hH, hImage, hClusters, hBackground, hRaw, hCleaned, hMask,
                   hWarnings, hDebugSaved, hAnalysis, hResult, ellipseVars, appVars>>

\* Step 3: analyzeColorClusters, then detectBackgroundAreas.
AnalyzeColors ==
    /\ hPc = "edges"
    /\ hClusters' = AnalyzeColorClusters(hImage, hW, hH)
    /\ hBackground' = DetectBackgroundAreas(hImage, hEdge, hW, hH, hClusters')
    /\ hPc' = "scored"
    /\ UNCHANGED <<hW, hH, hImage, hEdge, hRaw, hCleaned, hMask,
                   hWarnings, hDebugSaved, hAnalysis, hResult, ellipseVars, appVars>>

\* Step 4: the raw mask.
EmitRawMask ==
    /\ hPc = "scored"
    /\ hRaw' = RawMask(hEdge, hBackground, hW, hH, hClusters)
    /\ hPc' = "raw"
    /\ UNCHANGED <<hW, hH, hImage, hEdge, hClusters, hBackground, hCleaned, hMask,
                   hWarnings, hDebugSaved, hAnalysis, hResult, ellipseVars, appVars>>

\* cleanMaskArtifacts(rawMaskData, width, height): hCleaned is its cleanedMask,
\* hMask the smoothedMask it returns.
CleanMask ==
    /\ hPc = "raw"
    /\ hCleaned' = ThresholdMask(hRaw, hW, hH)
    /\ hMask' = CleanMaskArtifacts(hRaw, hW, hH)
    /\ hPc' = "cleaned"
    /\ UNCHANGED <<hW, hH, hImage, hEdge, hClusters, hBackground, hRaw,
                   hWarnings, hDebugSaved, hAnalysis, hResult, ellipseVars, appVars>>

\* The validation after the cleanup: the counters of step 4 (a pixel emitted with
\* alpha 0 is editable and detected background, any other is protected) and the
\* warnings they raise.
MaskWarnings(rawMaskData, w, h) ==
    LET editablePixels  == Cardinality({i \in Pixels(w, h) : rawMaskData[i][4] = 0})
        protectedPixels == w * h - editablePixels
        backgroundDetected == editablePixels
    IN  (IF editablePixels = 0 THEN {"No background areas detected"} ELSE {})
        \cup (IF protectedPixels = 0 THEN {"No subject detected"} ELSE {})
        \cup (IF 10 * backgroundDetected < w * h
              THEN {"Very small background area detected"} ELSE {})

\* sharp(cleanedMaskData, {raw: {width, height, channels: 4}}).png().toBuffer():
\* a lossless container of the RGBA raster.
EncodePng(maskData, w, h) ==
    [format |-> "png", width |-> w, height |-> h, channels |-> 4, pixels |-> maskData]

\* The opaque-ratio test moved ahead of the two transparent-ratio tests.
GetQualityRecommendationOpaqueFirst(transparent, opaque, total) ==
    IF 20 * opaque < total
    THEN "No subject protection - face/body will be changed"
    ELSE IF 20 * transparent < total
    THEN "Too protective - almost no background will be edited"
    ELSE IF 20 * transparent > 19 * total
    THEN "Too aggressive - subject will be edited too"
    ELSE IF 10 * transparent > total /\ 10 * opaque > total
    THEN "Good balance - should work well with DALL-E"
    ELSE "Moderate balance - may work but check visual result"

\* getQualityRecommendation: transparentRatio = transparent / total and
\* opaqueRatio = opaque / total compared with 0.05, 0.95 and 0.1, exactly
\* (x / total < 0.05 <=> 20 x < total, and so on).
GetQualityRecommendation(transparent, opaque, total) ==
    IF 20 * transparent < total
    THEN "Too protective - almost no background will be edited"
    ELSE IF 20 * transparent > 19 * total
    THEN "Too aggressive - subject will be edited too"
    ELSE IF 20 * opaque < total
    THEN "No subject protection - face/body will be changed"
    ELSE IF 10 * transparent > total /\ 10 * opaque > total
    THEN "Good balance - should work well with DALL-E"
    ELSE "Moderate balance - may work but check visual result"

\* analyzeMaskDistribution: the counters and the maskQuality object (the
\* percentage strings, formatted from the same counters, are left out).  The
\* function only reads maskData.
AnalyzeMaskDistribution(maskData, w, h) ==
    LET transparentPixels == Cardinality({i \in Pixels(w, h) : maskData[i][4] = 0})
        semiTransparentPixels ==
            Cardinality({i \in Pixels(w, h) : maskData[i][4] > 0 /\ maskData[i][4] < 255})
        opaquePixels == w * h - transparentPixels - semiTransparentPixels
        whitePixels ==
            Cardinality({i \in Pixels(w, h) :
                maskData[i][1] = 255 /\ maskData[i][2] = 255 /\ maskData[i][3] = 255})
        blackPixels ==
            Cardinality({i \in Pixels(w, h) :
                maskData[i][1] = 0 /\ maskData[i][2] = 0 /\ maskData[i][3] = 0})
        totalPixels == w * h
    IN  [totalPixels |-> totalPixels,
         transparent |-> transparentPixels,
         semiTransparent |-> semiTransparentPixels,
         opaque |-> opaquePixels,
         white |-> whitePixels,
         black |-> blackPixels,
         hasSubject |-> opaquePixels > 0 /\ transparentPixels > 0,
         balanced |-> 10 * transparentPixels > totalPixels /\ 10 * opaquePixels > totalPixels,
         recommendation |-> GetQualityRecommendation(transparentPixels, opaquePixels, totalPixels)]

\* The write of the debug file escaping its try block: the failure reaches the
\* outer catch, which throws 'Failed to create AI-powered editing mask'.
ReturnMaskSaveThrows ==
    /\ hPc = "cleaned"
    /\ hWarnings' = MaskWarnings(hRaw, hW, hH)
    /\ \E saved \in BOOLEAN :
          /\ hDebugSaved' = saved
          /\ hAnalysis' = IF saved THEN AnalyzeMaskDistribution(hMask, hW, hH) ELSE <<>>
          /\ hResult' = IF saved THEN EncodePng(hMask, hW, hH) ELSE <<>>
          /\ hPc' = IF saved THEN "returned" ELSE "failed"
    /\ UNCHANGED <<hW, hH, hImage, hEdge, hClusters, hBackground, hRaw, hCleaned, hMask,
                   ellipseVars, appVars>>

\* The rest of createBackgroundMask: the validation warnings, the PNG encoding,
\* the attempt to save the debug file (fs.writeFile may fail; the failure is
\* caught and logged, and the analysis after the write is then skipped), and the
\* return of maskBuffer.
ReturnMask ==
    /\ hPc = "cleaned"
    /\ hWarnings' = MaskWarnings(hRaw, hW, hH)
    /\ hResult' = EncodePng(hMask, hW, hH)
    /\ \E saved \in BOOLEAN :
          /\ hDebugSaved' = saved
          /\ hAnalysis' = IF saved THEN AnalyzeMaskDistribution(hMask, hW, hH) ELSE <<>>
    /\ hPc' = "returned"
    /\ UNCHANGED <<hW, hH, hImage, hEdge, hClusters, hBackground, hRaw, hCleaned, hMask,
                   ellipseVars, appVars>>

\* createBackgroundMask is not running.
EllipseIdle ==
    /\ eVariant = 0 /\ eW = 0 /\ eH = 0 /\ eMask = <<>> /\ eReturned = FALSE

\* Input rasters ---------------------------------------------------------

Gray == <<128, 128, 128>>
Dark == <<20, 20, 20>>
Soft == <<135, 135, 135>>
Blue == <<40, 90, 200>>
\* Exactly 60 away from the quantized gray (128,128,128).
Rose == <<188, 128, 128>>

\* Largest pixel count of the rasters enumerated exhaustively over two colours.
MaxTinyPixels == 9

\* Side of the square rasters carrying one rectangle.
RectSide == 16

\* A raster of colour bg carrying the rectangle x0 <= x < x1, y0 <= y < y1 of colour fg.
RectImage(w, h, bg, fg, x0, y0, x1, y1) ==
    [w |-> w, h |-> h,
     image |-> [idx \in Pixels(w, h) |->
                   LET x == idx % w
                       y == idx \div w
                   IN  IF x0 <= x /\ x < x1 /\ y0 <= y /\ y < y1 THEN fg ELSE bg]]

TinyImages ==
    UNION {
        {[w |-> d[1], h |-> d[2], image |-> f] : f \in [Pixels(d[1], d[2]) -> {Gray, Dark}]} :
        d \in {e \in (1..MaxTinyPixels) \X (1..MaxTinyPixels) : e[1] * e[2] <= MaxTinyPixels}}

RectImages ==
    {RectImage(RectSide, RectSide - 4, Gray, fg, c[1], c[2], c[1] + s[1], c[2] + s[2]) :
        fg \in {Dark, Soft, Blue, Rose}, c \in {2, 5, 8} \X {2, 5, 8}, s \in {1, 3, 6} \X {1, 3}}

\* The 100x100 mid-gray raster with a 40x40 dark square centred at (50,50), and a
\* 104x104 raster whose 5x5 dark square at 49..53 lies between the sample points
\* and farther than 50 pixels from every border.
ScenarioImages ==
    {RectImage(100, 100, Gray, Dark, 30, 30, 70, 70),
     RectImage(104, 104, Gray, Dark, 49, 49, 54, 54)}

HeurInit(inputs) ==
    /\ EllipseIdle
    /\ AppIdle
    /\ \E inp \in inputs : hW = inp.w /\ hH = inp.h /\ hImage = inp.image
    /\ hEdge = <<>> /\ hClusters = <<>> /\ hBackground = <<>>
    /\ hRaw = <<>> /\ hCleaned = <<>> /\ hMask = <<>>
    /\ hPc = "called"
    /\ hWarnings = {} /\ hDebugSaved = FALSE /\ hAnalysis = <<>> /\ hResult = <<>>

HeurNext ==
    \/ DetectEdges
    \/ AnalyzeColors
    \/ EmitRawMask
    \/ CleanMask
    \/ ReturnMask

\* The classifier on every input raster of the three families.
SpecHeur == HeurInit(TinyImages \cup RectImages \cup ScenarioImages) /\ [][HeurNext]_vars

\* createBackgroundMask is one sequential async function: once called it runs
\* each of its steps to the end.
SpecHeurLive ==
    /\ HeurInit(TinyImages \cup RectImages \cup ScenarioImages)
    /\ [][HeurNext]_vars
    /\ WF_vars(HeurNext)

\* Input masks of cleanMaskArtifacts -----------------------------------------

\* Largest side and largest pixel count of the masks enumerated exhaustively.
MaxMaskSide == 4
MaxMaskPixels == 12

MaskDims ==
    {d \in (1..MaxMaskSide) \X (1..MaxMaskSide) : d[1] * d[2] <= MaxMaskPixels}

\* Encodings of a pixel below the threshold: clean, white but transparent, and
\* a faint coloured remnant.
LowPixels == {<<0, 0, 0, 0>>, <<255, 255, 255, 0>>, <<200, 100, 50, 9>>}

\* Encodings of a pixel at or above the threshold: clean, black at the threshold
\* itself, and a half-transparent colour.
HighPixels == {<<255, 255, 255, 255>>, <<0, 0, 0, 10>>, <<12, 34, 56, 128>>}

\* The input mask with the pixels of `high` encoded as hi and the others as lo.
InputMask(w, h, high, lo, hi) ==
    [i \in Pixels(w, h) |-> IF i \in high THEN hi ELSE lo]

\* Every pattern of low and high pixels over every raster shape, in every encoding.
CleanInit ==
    /\ EllipseIdle
    /\ AppIdle
    /\ \E d \in MaskDims :
          /\ hW = d[1]
          /\ hH = d[2]
          /\ \E high \in SUBSET Pixels(d[1], d[2]), lo \in LowPixels, hi \in HighPixels :
                hRaw = InputMask(d[1], d[2], high, lo, hi)
    /\ hImage = <<>> /\ hEdge = <<>> /\ hClusters = <<>> /\ hBackground = <<>>
    /\ hCleaned = <<>> /\ hMask = <<>>
    /\ hPc = "raw"
    /\ hWarnings = {} /\ hDebugSaved = FALSE /\ hAnalysis = <<>> /\ hResult = <<>>

CleanNext ==
    \/ CleanMask
    \/ ReturnMask

\* cleanMaskArtifacts on every input mask.
SpecClean == CleanInit /\ [][CleanNext]_vars

----------------------------------------------------------------------------
(* Claims about the classifier and the cleanup *)

IsBinaryAlpha(mask) == \A i \in DOMAIN mask : mask[i][4] \in {0, 255}

\* Interior pixels: the ones both loops over 1..height-2, 1..width-2 visit.
Interior(w, h) ==
    {i \in Pixels(w, h) : 1 <= i % w /\ i % w < w - 1 /\ 1 <= i \div w /\ i \div w < h - 1}

\* The alphas of the 4-connected neighbours of interior pixel i.
NeighborAlphas(mask, w, i) ==
    <<mask[i - w][4], mask[i + w][4], mask[i - 1][4], mask[i + 1][4]>>

\* At least one 4-connected neighbour of the opposite binary state.
OnBoundary(mask, w, i) ==
    \E k \in 1..4 : /\ mask[i][4] \in {0, 255}
                    /\ NeighborAlphas(mask, w, i)[k] = 255 - mask[i][4]

\* Four times the average alpha of the 4 neighbours.
NeighborSum(mask, w, i) ==
    LET n == NeighborAlphas(mask, w, i) IN n[1] + n[2] + n[3] + n[4]

\* C1: every pixel of the classifier's mask has alpha 0 or 255, as emitted, after
\* the thresholding step and after the smoothing step.
C1_BinaryAlpha ==
    /\ hPc \in {"raw", "cleaned", "returned"} => IsBinaryAlpha(hRaw)
    /\ hPc \in {"cleaned", "returned"} => IsBinaryAlpha(hCleaned) /\ IsBinaryAlpha(hMask)

\* A returned mask with protected and editable pixels that the smoothing pass
\* has changed.
C1_Witness ==
    /\ hPc = "returned"
    /\ hImage # <<>>
    /\ hMask # hCleaned
    /\ \E i, j \in Pixels(hW, hH) : hMask[i][4] = 255 /\ hMask[j][4] = 0

RgbMirrorsAlpha(mask) ==
    \A i \in DOMAIN mask :
        /\ mask[i][4] = 0 => mask[i][1] = 0 /\ mask[i][2] = 0 /\ mask[i][3] = 0
        /\ mask[i][4] = 255 => mask[i][1] = 255 /\ mask[i][2] = 255 /\ mask[i][3] = 255

\* C2: in the mask cleanMaskArtifacts builds, after thresholding and after
\* smoothing, R = G = B = 0 where alpha is 0 and R = G = B = 255 where alpha is
\* 255, whatever the input mask.
C2_RgbMirrorsAlpha ==
    hPc \in {"cleaned", "returned"} => RgbMirrorsAlpha(hCleaned) /\ RgbMirrorsAlpha(hMask)

\* The input held a transparent white pixel and an opaque-enough black one, and
\* the smoothing pass rewrote a pixel.
C2_Witness ==
    /\ hPc = "cleaned"
    /\ \E i, j \in Pixels(hW, hH) : hRaw[i] = <<255, 255, 255, 0>> /\ hRaw[j] = <<0, 0, 0, 10>>
    /\ hMask # hCleaned

IsScenario100 ==
    /\ hW = 100 /\ hH = 100
    /\ hImage = RectImage(100, 100, Gray, Dark, 30, 30, 70, 70).image

\* C6 (as claimed): on the 100x100 mid-gray raster with the 40x40 dark square
\* centred at (50,50), the pixels inside the square have alpha 255 and the pixels
\* of the gray region far from the square have alpha 0.
C6_SquareIsSubject ==
    (IsScenario100 /\ hPc = "returned") =>
        /\ \A x \in 32..67, y \in 32..67 : hMask[y * 100 + x][4] = 255
        /\ \A x \in 0..99, y \in 0..99 :
               (x < 20 \/ x > 79 \/ y < 20 \/ y > 79) => hMask[y * 100 + x][4] = 0

\* The composite score of pixel idx exceeds 0.5, from the maps the earlier steps
\* left: borderBias (0.3 within 50 pixels of a border), edgeScore (0.4 for a
\* gradient below 25), colorScore (the background-score map entry, an infinite
\* quotient when totalSamples is 0) and centerBias (0.2 * centerDistance /
\* maxDistance).  With S the sum of the first three in tenths of totalSamples,
\* S/(10T) + 0.2 * sqrt(c2/m2) > 1/2  <=>  sqrt(c2/m2) > (5T - S)/(2T).
ScoreExceedsHalf(idx) ==
    LET x == idx % hW
        y == idx \div hW
        nearBorder == x < 50 \/ y < 50 \/ hW - x - 1 < 50 \/ hH - y - 1 < 50
        lowEdge == hEdge[idx] < 625
        T == hClusters.totalSamples
        infinite == T = 0 /\ hBackground[idx] > 0
        U == IF T = 0 THEN 1 ELSE T
        S == (IF nearBorder THEN 3 * U ELSE 0) + (IF lowEdge THEN 4 * U ELSE 0)
             + 10 * hBackground[idx]
        c2 == (2 * x - hW) * (2 * x - hW) + (2 * y - hH) * (2 * y - hH)
        m2 == hW * hW + hH * hH
    IN  \/ infinite
        \/ S > 5 * U
        \/ S <= 5 * U /\ ~LeqFrac(c2, m2, (5 * U - S) * (5 * U - S), 4 * U * U)

\* C7: a pixel is emitted as (0,0,0,0) exactly when borderBias + edgeScore +
\* colorScore + centerBias > 0.5, and as (255,255,255,255) otherwise.
C7_BackgroundIffScore ==
    (hImage # <<>> /\ hPc \in {"raw", "cleaned", "returned"}) =>
        \A idx \in Pixels(hW, hH) :
            hRaw[idx] = IF ScoreExceedsHalf(idx) THEN Transparent ELSE Opaque

\* A raw mask with a subject pixel farther than 50 pixels from every border (no
\* border bias, low edge, no colour match) and a subject pixel on a strong edge.
C7_Witness ==
    /\ hImage # <<>> /\ hPc = "raw"
    /\ \E idx \in Pixels(hW, hH) :
          /\ LET x == idx % hW
                 y == idx \div hW
             IN  x >= 50 /\ y >= 50 /\ hW - x - 1 >= 50 /\ hH - y - 1 >= 50
          /\ hEdge[idx] < 625
          /\ hRaw[idx] = Opaque
    /\ \E idx \in Pixels(hW, hH) : hEdge[idx] >= 900 /\ hRaw[idx] = Opaque
    /\ \E idx \in Pixels(hW, hH) : hRaw[idx] = Transparent

\* The grayscale of pixel (x, y) of the input image, rounded half up.
GrayAt(x, y) ==
    LET px == hImage[y * hW + x]
    IN  (299 * px[1] + 587 * px[2] + 114 * px[3] + 500) \div 1000

\* C8: every pixel of the outermost 1-pixel ring has edge value 0, and every
\* interior pixel has edge value sqrt(sobelX^2 + sobelY^2) over its 8 grayscale
\* neighbours (the map holds the square).
C8_EdgeMap ==
    (hImage # <<>> /\ hPc # "called") =>
        \A x \in 0..(hW - 1), y \in 0..(hH - 1) :
            IF x = 0 \/ x = hW - 1 \/ y = 0 \/ y = hH - 1
            THEN hEdge[y * hW + x] = 0
            ELSE LET gx == (GrayAt(x + 1, y - 1) + 2 * GrayAt(x + 1, y) + GrayAt(x + 1, y + 1))
                           - (GrayAt(x - 1, y - 1) + 2 * GrayAt(x - 1, y) + GrayAt(x - 1, y + 1))
                     gy == (GrayAt(x - 1, y + 1) + 2 * GrayAt(x, y + 1) + GrayAt(x + 1, y + 1))
                           - (GrayAt(x - 1, y - 1) + 2 * GrayAt(x, y - 1) + GrayAt(x + 1, y - 1))
                 IN  hEdge[y * hW + x] = gx * gx + gy * gy

\* An edge map with a non-zero interior entry, over an image whose ring itself
\* holds two colours side by side.
C8_Witness ==
    /\ hImage # <<>> /\ hPc = "edges"
    /\ \E idx \in Interior(hW, hH) : hEdge[idx] > 0
    /\ \E x \in 0..(hW - 2) : hImage[x] # hImage[x + 1]

IsCleanBinary(mask) == \A i \in DOMAIN mask : mask[i] \in {Transparent, Opaque}

\* C9 (as claimed): cleanMaskArtifacts maps an already-binary mask (alpha 0 or
\* 255, RGB mirroring alpha) to itself.
C9_CleanupIsIdentityOnBinary ==
    (hPc = "cleaned" /\ IsCleanBinary(hRaw)) => hMask = hRaw

\* C9 (amended): the thresholding loop of cleanMaskArtifacts maps an
\* already-binary mask to itself, and thresholding its own result again changes
\* no pixel.
C9_ThresholdIsIdentityOnBinary ==
    hPc = "cleaned" =>
        /\ IsCleanBinary(hRaw) => hCleaned = hRaw
        /\ ThresholdMask(hCleaned, hW, hH) = hCleaned

\* A binary input with both kinds of pixel that the thresholding leaves alone and
\* the smoothing pass then changes.
C9_Witness ==
    /\ hPc = "cleaned" /\ IsCleanBinary(hRaw)
    /\ \E i, j \in Pixels(hW, hH) : hRaw[i] = Opaque /\ hRaw[j] = Transparent
    /\ hCleaned = hRaw
    /\ hMask # hRaw

\* C10 (as claimed): the smoothing pass never turns an opaque pixel transparent.
C10_OpaqueStaysOpaque ==
    hPc = "cleaned" => \A i \in Pixels(hW, hH) : hCleaned[i][4] = 255 => hMask[i][4] = 255

\* C10 (amended): smoothing changes only interior pixels with a 4-connected
\* neighbour of the opposite state; such a pixel is forced opaque when the average
\* of its neighbours is above 127, is left untouched when it is transparent and
\* the average is below 64, and is otherwise forced transparent, so an opaque
\* pixel with at least three transparent neighbours becomes transparent; every
\* decision reads the mask as it was before the pass.
C10_Smoothing ==
    hPc = "cleaned" =>
        \A i \in Pixels(hW, hH) :
            IF i \in Interior(hW, hH) /\ OnBoundary(hCleaned, hW, i)
            THEN LET sum == NeighborSum(hCleaned, hW, i)
                 IN  /\ sum > 4 * 127 => hMask[i] = Opaque
                     /\ (sum <= 4 * 127 /\ hCleaned[i][4] = 0 /\ sum < 4 * 64) =>
                            hMask[i] = hCleaned[i]
                     /\ (sum <= 4 * 127 /\ ~(hCleaned[i][4] = 0 /\ sum < 4 * 64)) =>
                            hMask[i] = Transparent
                     /\ (hCleaned[i][4] = 255 /\ sum <= 4 * 127) => hMask[i][4] = 0
            ELSE hMask[i] = hCleaned[i]

\* Two adjacent interior pixels are both rewritten in one pass: a transparent one
\* made opaque and an opaque one made transparent.
C10_Witness ==
    /\ hPc = "cleaned"
    /\ \E i \in Interior(hW, hH) :
          /\ i + 1 \in Interior(hW, hH)
          /\ hCleaned[i][4] # hMask[i][4]
          /\ hCleaned[i + 1][4] # hMask[i + 1][4]
          /\ hMask[i][4] # hMask[i + 1][4]

\* The sample points of analyzeColorClusters: x and y multiples of 8.
SamplePoints(w, h) ==
    {xy \in (0..(w - 1)) \X (0..(h - 1)) : xy[1] % 8 = 0 /\ xy[2] % 8 = 0}

\* A channel value rounded down to a multiple of 32.
Floor32(c) == c - (c % 32)

\* The number of sample points whose colour, each channel rounded down to a
\* multiple of 32, is rgb.
SampleCount(rgb) ==
    Cardinality({xy \in SamplePoints(hW, hH) :
        LET px == hImage[xy[2] * hW + xy[1]]
        IN  Floor32(px[1]) = rgb[1] /\ Floor32(px[2]) = rgb[2] /\ Floor32(px[3]) = rgb[3]})

RECURSIVE SumOfFrequencies(_, _)
SumOfFrequencies(dominantColors, k) ==
    IF k = 0 THEN 0 ELSE SumOfFrequencies(dominantColors, k - 1) + dominantColors[k].frequency

\* The first half of C11: the dominant colours are at most 5 distinct quantized
\* colours of sample points, each with the number of sample points of that
\* colour as its frequency, in non-increasing frequency order, and no colour left
\* out is more frequent than one that is listed.
C11_SamplingAndOrder ==
    (hImage # <<>> /\ hPc \notin {"called", "edges"}) =>
        LET dc == hClusters.dominantColors
        IN  /\ Len(dc) <= 5
            /\ \A k \in 1..Len(dc) :
                  /\ dc[k].frequency = SampleCount(dc[k].rgb)
                  /\ dc[k].frequency > 0
                  /\ \A j \in 1..(k - 1) :
                        dc[j].rgb # dc[k].rgb /\ dc[j].frequency >= dc[k].frequency
            /\ \A xy \in SamplePoints(hW, hH) :
                  LET px == hImage[xy[2] * hW + xy[1]]
                      q  == <<Floor32(px[1]), Floor32(px[2]), Floor32(px[3])>>
                  IN  \/ \E k \in 1..Len(dc) : dc[k].rgb = q
                      \/ Len(dc) = 5 /\ SampleCount(q) <= dc[5].frequency

\* C11 (as claimed): analyzeColorClusters samples the pixels whose x and y are
\* multiples of 8, quantizes each channel to floor(c/32)*32, returns at most 5
\* dominant colours in non-increasing frequency order, and its totalSamples is
\* the number of samples taken, so the frequencies sum to at most totalSamples.
C11_TotalSamplesIsSampleCount ==
    /\ C11_SamplingAndOrder
    /\ (hImage # <<>> /\ hPc \notin {"called", "edges"}) =>
          /\ hClusters.totalSamples = Cardinality(SamplePoints(hW, hH))
          /\ SumOfFrequencies(hClusters.dominantColors, Len(hClusters.dominantColors))
                <= hClusters.totalSamples

\* C12: the background-score map holds 0 for a pixel whose edge magnitude is at
\* least 30, and otherwise the sum of frequency/totalSamples over exactly the
\* dominant colours whose Euclidean RGB distance to the pixel's colour is below
\* 60 (the map holds the numerator of that sum).
C12_BackgroundScore ==
    (hImage # <<>> /\ hPc \notin {"called", "edges"}) =>
        \A i \in Pixels(hW, hH) :
            LET dc   == hClusters.dominantColors
                px   == hImage[i]
                D2(k) == (px[1] - dc[k].rgb[1]) * (px[1] - dc[k].rgb[1])
                         + (px[2] - dc[k].rgb[2]) * (px[2] - dc[k].rgb[2])
                         + (px[3] - dc[k].rgb[3]) * (px[3] - dc[k].rgb[3])
                near == {k \in 1..Len(dc) : D2(k) < 3600}
                Sum[S \in SUBSET near] ==
                    IF S = {} THEN 0
                    ELSE LET k == CHOOSE k \in S : TRUE
                         IN  dc[k].frequency + Sum[S \ {k}]
            IN  hBackground[i] = IF hEdge[i] >= 900 THEN 0 ELSE Sum[near]

\* A score map with a strong-edge pixel of a dominant colour (score 0), a
\* low-edge pixel with a positive score, and a low-edge pixel exactly 60 away
\* from the only dominant colour (score 0).
C12_Witness ==
    /\ hImage # <<>> /\ hPc = "scored"
    /\ \E i \in Pixels(hW, hH) :
          /\ hEdge[i] >= 900 /\ hBackground[i] = 0
          /\ \E k \in 1..Len(hClusters.dominantColors) :
                hClusters.dominantColors[k].rgb = hImage[i]
    /\ \E i \in Pixels(hW, hH) : hEdge[i] < 900 /\ hBackground[i] > 0
    /\ \E i \in Pixels(hW, hH) :
          /\ hEdge[i] < 900 /\ hBackground[i] = 0
          /\ hImage[i] = Rose
          /\ Len(hClusters.dominantColors) = 1
          /\ hClusters.dominantColors[1].rgb = <<128, 128, 128>>


----------------------------------------------------------------------------
(* The classifier on uniform rasters *)

Black == <<0, 0, 0>>
White == <<255, 255, 255>>

\* Largest side of the small uniform rasters, all shapes of which are run.
MaxUniformSide == 10

\* Side of the large square uniform raster: the smallest square in which fewer
\* than 30% of the pixels lie within 50 pixels of a border.
WideSide == 613

\* Small rasters of every shape in three uniform colours, a raster of exactly 64
\* pixels, rasters around the border width, and the all-black large raster.
UniformInputs ==
    ((((1..MaxUniformSide) \X (1..MaxUniformSide))
          \cup {<<64, 1>>, <<100, 100>>, <<101, 120>>}) \X {Black, Gray, White})
        \cup {<<<<WideSide, WideSide>>, Black>>}

UniformInit ==
    /\ EllipseIdle /\ HeurIdle /\ PostIdle
    /\ QualityIdle /\ CallsIdle /\ RateIdle /\ StoreIdle /\ PWAIdle
    /\ \E inp \in UniformInputs : uW = inp[1][1] /\ uH = inp[1][2] /\ uColor = inp[2]
    /\ uClusters = <<>> /\ uScores = {}
    /\ uNearBorder = 0 /\ uNearBackground = 0 /\ uBackground = 0 /\ uAlphas = {}
    /\ uPc = "called"

\* Steps 1 to 4 of createBackgroundMask and cleanMaskArtifacts on the raster
\* whose every pixel is uColor; of the maps it keeps the colour clusters, the
\* set of values of the background-score map, the counts of the pixels emitted
\* as background and the set of alpha values of the cleaned mask.
ClassifyUniform ==
    /\ uPc = "called"
    /\ \E colorClusters \in {AnalyzeColorClusters([i \in Pixels(uW, uH) |-> uColor], uW, uH)} :
          LET imageData == [i \in Pixels(uW, uH) |-> uColor]
              edgeMap == EdgeMap(imageData, uW, uH)
              backgroundAreas ==
                  DetectBackgroundAreas(imageData, edgeMap, uW, uH, colorClusters)
              near == {idx \in Pixels(uW, uH) :
                          Min2(Min2(idx % uW, idx \div uW),
                               Min2(uW - (idx % uW) - 1, uH - (idx \div uW) - 1)) < BorderWidth}
          IN  /\ uClusters' = colorClusters
              /\ uScores' = {backgroundAreas[i] : i \in Pixels(uW, uH)}
              /\ uNearBorder' = Cardinality(near)
              \* the pixels for which isBackgroundPixel returns true, computed once
              /\ \E background \in {{idx \in Pixels(uW, uH) :
                        IsBackgroundPixel(idx % uW, idx \div uW, idx, edgeMap,
                                          backgroundAreas, uW, uH, colorClusters)}} :
                    LET rawMaskData == [idx \in Pixels(uW, uH) |->
                                           IF idx \in background THEN Transparent ELSE Opaque]
                        cleanedMaskData == CleanMaskArtifacts(rawMaskData, uW, uH)
                    IN  /\ uNearBackground' = Cardinality(near \cap background)
                        /\ uBackground' = Cardinality(background)
                        /\ uAlphas' = {cleanedMaskData[i][4] : i \in Pixels(uW, uH)}
    /\ uPc' = "classified"
    /\ UNCHANGED <<uW, uH, uColor, ellipseVars, heurVars, postVars,
                   qualityVars, callVars, rateVars, storeVars, pwaVars>>

UniformNext == ClassifyUniform

SpecUniform == UniformInit /\ [][UniformNext]_vars

\* C13 (as claimed): an all-black input of any size has exactly one dominant
\* colour, every pixel's colorScore is that colour's frequency/totalSamples, and
\* at least width*height*0.3 pixels with border distance < 50 are classified
\* background.
C13_ThirtyPercentNearBorder ==
    (uPc # "called" /\ uColor = Black) =>
        /\ Len(uClusters.dominantColors) = 1
        /\ uScores = {uClusters.dominantColors[1].frequency}
        /\ 10 * uNearBackground >= 3 * uW * uH

\* C13 (amended): a uniform input of any size has exactly one dominant colour,
\* every pixel's colorScore is that colour's frequency/totalSamples, and every
\* pixel is classified background; the background pixels with border distance
\* < 50 are therefore all the pixels when width or height is at most 100 and
\* 100*(width+height) - 10000 of them otherwise.
C13_UniformAllBackground ==
    uPc # "called" =>
        /\ Len(uClusters.dominantColors) = 1
        /\ uScores = {uClusters.dominantColors[1].frequency}
        /\ uBackground = uW * uH
        /\ uNearBackground = uNearBorder
        /\ uNearBorder = IF uW <= 100 \/ uH <= 100 THEN uW * uH
                         ELSE 100 * (uW + uH) - 10000

\* The all-black raster of the large size is classified: wholly background, with
\* fewer than 30% of its pixels near the border.
C13_Witness ==
    /\ uPc = "classified" /\ uColor = Black /\ uW > 100 /\ uH > 100
    /\ uBackground = uW * uH
    /\ uNearBackground = uNearBorder
    /\ 10 * uNearBorder < 3 * uW * uH

\* C24: for a uniform input of any size every pixel is classified background,
\* and the mask returned by the cleanup is transparent everywhere: alpha 0 at
\* every pixel, no protected (alpha 255) pixel.
C24_UniformAllTransparent ==
    uPc = "classified" =>
        /\ uBackground = uW * uH
        /\ uAlphas = {0}
        /\ 255 \notin uAlphas

\* A white raster of fewer than 64 pixels, for which totalSamples is 0, has
\* been classified and its mask is transparent everywhere.
C24_Witness ==
    /\ uPc = "classified" /\ uColor = White
    /\ uW * uH < 64 /\ uW > 2 /\ uH > 2
    /\ uClusters.totalSamples = 0
    /\ uAlphas = {0}


----------------------------------------------------------------------------
(* The mask diagnostics: analyzeMaskDistribution and getQualityRecommendation *)

\* Largest pixel count of the masks handed to the diagnostics.
MaxQualityPixels == 40

QualityDims ==
    {d \in {<<1, 1>>, <<2, 2>>, <<5, 4>>, <<7, 3>>, <<8, 5>>} : d[1] * d[2] <= MaxQualityPixels}

\* Partly transparent pixels at both ends of the range 0 < a < 255.
SemiPixels == {<<255, 255, 255, 1>>, <<0, 0, 0, 254>>}

\* The mask whose first t pixels are transparent, next s partly transparent (semi)
\* and remaining ones opaque.
CountedMask(w, h, t, s, semi) ==
    [i \in Pixels(w, h) |-> IF i < t THEN Transparent ELSE IF i < t + s THEN semi ELSE Opaque]

QualityInit ==
    /\ EllipseIdle /\ HeurIdle /\ PostIdle
    /\ UniformIdle /\ CallsIdle /\ RateIdle /\ StoreIdle /\ PWAIdle
    /\ \E d \in QualityDims :
          /\ qW = d[1]
          /\ qH = d[2]
          /\ \E t \in 0..(d[1] * d[2]), semi \in SemiPixels :
             \E s \in 0..(d[1] * d[2] - t) :
                qMask = CountedMask(d[1], d[2], t, s, semi)
    /\ qAnalysis = <<>>

\* const maskAnalysis = analyzeMaskDistribution(cleanedMaskData, width, height):
\* the function reads maskData and writes only its own counters.
AnalyzeMask ==
    /\ qAnalysis = <<>>
    /\ qW > 0
    /\ qAnalysis' = AnalyzeMaskDistribution(qMask, qW, qH)
    /\ UNCHANGED <<qW, qH, qMask, ellipseVars, heurVars, postVars,
                   uniformVars, callVars, rateVars, storeVars, pwaVars>>

QualityNext == AnalyzeMask

SpecQuality == QualityInit /\ [][QualityNext]_vars

\* The recommendation the first matching rule gives for the counted pixels.
C14_FirstMatch ==
    qAnalysis # <<>> =>
        LET t == Cardinality({i \in Pixels(qW, qH) : qMask[i][4] = 0})
            o == Cardinality({i \in Pixels(qW, qH) : qMask[i][4] = 255})
            total == qW * qH
            rec == qAnalysis.recommendation
            r1 == 20 * t < total
            r2 == 20 * t > 19 * total
            r3 == 20 * o < total
            r4 == 10 * t > total /\ 10 * o > total
        IN  /\ r1 => rec = "Too protective - almost no background will be edited"
            /\ (~r1 /\ r2) => rec = "Too aggressive - subject will be edited too"
            /\ (~r1 /\ ~r2 /\ r3) => rec = "No subject protection - face/body will be changed"
            /\ (~r1 /\ ~r2 /\ ~r3 /\ r4) => rec = "Good balance - should work well with DALL-E"
            /\ (~r1 /\ ~r2 /\ ~r3 /\ ~r4) =>
                   rec = "Moderate balance - may work but check visual result"

\* C14: getQualityRecommendation(transparent, opaque, total) returns, by first
\* match, 'too protective' if transparent/total < 0.05, 'too aggressive' if
\* transparent/total > 0.95, 'no subject protection' if opaque/total < 0.05, 'good
\* balance' if both ratios are > 0.1, otherwise 'moderate'; and computing the
\* diagnostics never modifies a pixel of the mask.
C14_Diagnostics == [](C14_FirstMatch) /\ [][qMask' = qMask]_vars

\* The diagnostics of a mask with partly transparent pixels for which only the
\* third rule matches.
C14_Witness ==
    /\ qAnalysis # <<>>
    /\ qAnalysis.semiTransparent > 0
    /\ 20 * qAnalysis.transparent >= qW * qH
    /\ qAnalysis.recommendation = "No subject protection - face/body will be changed"


\* The call has not failed, and what it returned is the PNG of the cleaned mask,
\* whatever the warnings and whether or not the debug file could be written.
C15_ReturnsTheMask ==
    /\ hPc \in {"called", "edges", "scored", "raw", "cleaned", "returned"}
    /\ hPc = "returned" =>
          /\ hResult = [format |-> "png", width |-> hW, height |-> hH, channels |-> 4,
                        pixels |-> hMask]
          /\ DOMAIN hMask = Pixels(hW, hH)
          /\ "No background areas detected" \in hWarnings
                <=> \A i \in Pixels(hW, hH) : hRaw[i][4] # 0
          /\ "No subject detected" \in hWarnings
                <=> \A i \in Pixels(hW, hH) : hRaw[i][4] = 0
          /\ ~hDebugSaved => hAnalysis = <<>>

\* C15: the classifier is total: for any well-formed input it returns a mask and
\* never an error; a mask with no editable or no protected pixel only raises a
\* warning and is still returned, and a failure to write the debug mask file does
\* not make mask creation fail.
C15_ClassifierIsTotal == [](C15_ReturnsTheMask) /\ <>(hPc = "returned")

\* A mask without a single protected pixel was returned, with the warning, after
\* the write of the debug file had failed.
C15_Witness ==
    /\ hPc = "returned" /\ hImage # <<>>
    /\ ~hDebugSaved
    /\ \A i \in Pixels(hW, hH) : hMask[i][4] = 0
    /\ "No subject detected" \in hWarnings
    /\ hResult.pixels = hMask


----------------------------------------------------------------------------
(* Two invocations of createBackgroundMask, interleaved at their awaits *)

Calls == {1, 2}

\* Rasters with different masks, and one too small to hold a subject.
CallImages ==
    {RectImage(RectSide, RectSide - 4, Gray, Dark, 5, 5, 8, 8),
     RectImage(RectSide, RectSide - 4, Gray, Dark, 2, 2, 8, 5),
     RectImage(RectSide, RectSide - 4, Gray, Blue, 8, 2, 14, 5),
     RectImage(3, 3, Gray, Dark, 1, 1, 2, 2)}

CallsInit ==
    /\ EllipseIdle /\ HeurIdle /\ PostIdle
    /\ UniformIdle /\ QualityIdle /\ RateIdle /\ StoreIdle /\ PWAIdle
    /\ cImage \in [Calls -> CallImages]
    /\ cPc = [c \in Calls |-> "called"]
    /\ cMask = [c \in Calls |-> <<>>]
    /\ cReturned = [c \in Calls |-> <<>>]
    /\ cSaved = [c \in Calls |-> FALSE]
    /\ debugFile = <<>>

\* From the decoded input to the await of the PNG encoding: edge map, clusters,
\* score map, raw mask and cleanup, all in buffers allocated by this call.
Synthesize(c) ==
    /\ cPc[c] = "called"
    /\ LET w == cImage[c].w
           h == cImage[c].h
           imageData == cImage[c].image
       IN  \E edgeMap \in {EdgeMap(imageData, w, h)} :
           \E colorClusters \in {AnalyzeColorClusters(imageData, w, h)} :
           \E backgroundAreas \in
                  {DetectBackgroundAreas(imageData, edgeMap, w, h, colorClusters)} :
              cMask' = [cMask EXCEPT ![c] =
                           CleanMaskArtifacts(
                               RawMask(edgeMap, backgroundAreas, w, h, colorClusters), w, h)]
    /\ cPc' = [cPc EXCEPT ![c] = "encoded"]
    /\ UNCHANGED <<cImage, cReturned, cSaved, debugFile, ellipseVars, heurVars, postVars,
                   uniformVars, qualityVars, rateVars, storeVars, pwaVars>>

\* await fs.writeFile(debugMaskPath, maskBuffer): the path is the same for every
\* invocation, public/DEBUG_generated_mask.png; a failed write is caught.
SaveDebugMask(c) ==
    /\ cPc[c] = "encoded"
    /\ \E ok \in BOOLEAN :
          /\ cSaved' = [cSaved EXCEPT ![c] = ok]
          /\ debugFile' = IF ok THEN EncodePng(cMask[c], cImage[c].w, cImage[c].h)
                          ELSE debugFile
    /\ cPc' = [cPc EXCEPT ![c] = "written"]
    /\ UNCHANGED <<cImage, cMask, cReturned, ellipseVars, heurVars, postVars,
                   uniformVars, qualityVars, rateVars, storeVars, pwaVars>>

\* return maskBuffer
ReturnBuffer(c) ==
    /\ cPc[c] = "written"
    /\ cReturned' = [cReturned EXCEPT ![c] = EncodePng(cMask[c], cImage[c].w, cImage[c].h)]
    /\ cPc' = [cPc EXCEPT ![c] = "returned"]
    /\ UNCHANGED <<cImage, cMask, cSaved, debugFile, ellipseVars, heurVars, postVars,
                   uniformVars, qualityVars, rateVars, storeVars, pwaVars>>

CallsNext ==
    \E c \in Calls :
        \/ Synthesize(c)
        \/ SaveDebugMask(c)
        \/ ReturnBuffer(c)

SpecCalls == CallsInit /\ [][CallsNext]_vars

\* C16 (as claimed): invocations share no mutable state: each call reads and
\* writes only buffers allocated within that call, so the mask a call returns is
\* that of its own input alone and nothing an invocation wrote (here: the debug
\* file it saved) is overwritten by another.
C16_NoSharedState ==
    \A c \in Calls :
        /\ cReturned[c] # <<>> =>
              cReturned[c].pixels =
                  LET w == cImage[c].w
                      h == cImage[c].h
                      e == EdgeMap(cImage[c].image, w, h)
                      k == AnalyzeColorClusters(cImage[c].image, w, h)
                      b == DetectBackgroundAreas(cImage[c].image, e, w, h, k)
                  IN  CleanMaskArtifacts(RawMask(e, b, w, h, k), w, h)
        /\ cSaved[c] => debugFile.pixels = cMask[c]


----------------------------------------------------------------------------
(* The in-memory rate limiter of the photo routes: checkRateLimit(ip) *)

\* RATE_LIMIT.maxRequestsPerMinute of edit-photo and of generate-photo.
EditMaxRequests == 2
GenerateMaxRequests == 3

\* RATE_LIMIT.resetTimeMinutes * 60000
WindowMs == 60000

IPs == {"10.0.0.1", "10.0.0.2"}

\* Milliseconds Date.now() has advanced since the previous call.
ClockSteps == {0, 1, WindowMs - 1, WindowMs, WindowMs + 1}

\* Largest number of calls and latest clock reading of a run.
MaxCalls == 5
MaxNow == 120002

RateInit ==
    /\ EllipseIdle /\ HeurIdle /\ PostIdle
    /\ UniformIdle /\ QualityIdle /\ CallsIdle /\ StoreIdle /\ PWAIdle
    /\ rlMax \in {EditMaxRequests, GenerateMaxRequests}
    /\ rlNow = 0
    /\ rateLimitMap = [ip \in IPs |-> <<>>]
    /\ rlLog = <<>>

\* The rejection test written count > max: one request too many gets through.
CheckRateLimitOffByOne(ip, d) ==
    /\ Len(rlLog) < MaxCalls
    /\ rlNow + d <= MaxNow
    /\ LET now == rlNow + d
           userLimit == rateLimitMap[ip]
       IN  /\ rlNow' = now
           /\ IF userLimit = <<>> \/ now > userLimit.resetTime
              THEN /\ rateLimitMap' = [rateLimitMap EXCEPT
                                          ![ip] = [count |-> 1, resetTime |-> now + WindowMs]]
                   /\ rlLog' = Append(rlLog, [ip |-> ip, now |-> now, ok |-> TRUE, opened |-> TRUE])
              ELSE IF userLimit.count > rlMax
              THEN /\ rateLimitMap' = rateLimitMap
                   /\ rlLog' = Append(rlLog, [ip |-> ip, now |-> now, ok |-> FALSE, opened |-> FALSE])
              ELSE /\ rateLimitMap' = [rateLimitMap EXCEPT ![ip].count = userLimit.count + 1]
                   /\ rlLog' = Append(rlLog, [ip |-> ip, now |-> now, ok |-> TRUE, opened |-> FALSE])
    /\ UNCHANGED <<rlMax, ellipseVars, heurVars,
                   uniformVars, qualityVars, callVars, storeVars, pwaVars>>

\* checkRateLimit(ip), called when Date.now() has advanced by d: a missing or
\* expired entry is replaced by {count: 1, resetTime: now + 60000} and the call
\* accepted; a full entry rejects; otherwise the count is incremented.  rlLog
\* records the call, its result and whether it replaced the entry.
CheckRateLimit(ip, d) ==
    /\ Len(rlLog) < MaxCalls
    /\ rlNow + d <= MaxNow
    /\ LET now == rlNow + d
           userLimit == rateLimitMap[ip]
       IN  /\ rlNow' = now
           /\ IF userLimit = <<>> \/ now > userLimit.resetTime
              THEN /\ rateLimitMap' = [rateLimitMap EXCEPT
                                          ![ip] = [count |-> 1, resetTime |-> now + WindowMs]]
                   /\ rlLog' = Append(rlLog, [ip |-> ip, now |-> now, ok |-> TRUE, opened |-> TRUE])
              ELSE IF userLimit.count >= rlMax
              THEN /\ rateLimitMap' = rateLimitMap
                   /\ rlLog' = Append(rlLog, [ip |-> ip, now |-> now, ok |-> FALSE, opened |-> FALSE])
              ELSE /\ rateLimitMap' = [rateLimitMap EXCEPT ![ip].count = userLimit.count + 1]
                   /\ rlLog' = Append(rlLog, [ip |-> ip, now |-> now, ok |-> TRUE, opened |-> FALSE])
    /\ UNCHANGED <<rlMax, ellipseVars, heurVars,
                   uniformVars, qualityVars, callVars, storeVars, pwaVars>>

RateNext ==
    /\ \E ip \in IPs, d \in ClockSteps : CheckRateLimit(ip, d)
    /\ UNCHANGED postVars

SpecRate == RateInit /\ [][RateNext]_vars

\* The calls of rlLog for ip that returned true.
Accepted(ip) == {k \in 1..Len(rlLog) : rlLog[k].ip = ip /\ rlLog[k].ok}

\* C17 (as claimed): for every IP and every time interval of length 60000 ms, at
\* most maxRequestsPerMinute calls of checkRateLimit for that IP return true.
C17_AtMostMaxPerMinute ==
    \A ip \in IPs :
        \A k \in Accepted(ip) :
            Cardinality({j \in Accepted(ip) :
                /\ rlLog[k].now <= rlLog[j].now
                /\ rlLog[j].now < rlLog[k].now + 60000}) <= rlMax

\* The call of ip that created the entry in force when call k was decided
\* (k itself when k created one), 0 when there is none.
WindowOf(ip, k) ==
    LET openers == {j \in 1..k : rlLog[j].ip = ip /\ rlLog[j].opened}
    IN  IF openers = {} THEN 0 ELSE CHOOSE j \in openers : \A i \in openers : i <= j

\* C20: the stored count is always between 1 and maxRequestsPerMinute; within
\* one window (from the accepting call at t0 that created the entry through
\* resetTime = t0 + 60000) at most maxRequestsPerMinute calls return true; the
\* first call with now > resetTime returns true and starts a new window with
\* count 1 and resetTime = now + 60000, so a rejected client is accepted again
\* after its window has expired.
C20_Windows ==
    \A ip \in IPs :
        /\ rateLimitMap[ip] # <<>> =>
              /\ 1 <= rateLimitMap[ip].count
              /\ rateLimitMap[ip].count <= rlMax
        /\ \A k \in 1..Len(rlLog) :
              rlLog[k].ip = ip =>
                  LET o == WindowOf(ip, k)
                      before == WindowOf(ip, k - 1)
                      inWindow == {j \in Accepted(ip) : j <= k /\ WindowOf(ip, j) = o}
                  IN  /\ o # 0
                      /\ Cardinality(inWindow) <= rlMax
                      /\ \A j \in inWindow : rlLog[j].now <= rlLog[o].now + 60000
                      /\ rlLog[o].ok
                      /\ (before = 0 \/ rlLog[k].now > rlLog[before].now + 60000)
                            <=> rlLog[k].opened
                      /\ (~rlLog[k].ok) => Cardinality(inWindow) = rlMax
        /\ (Len(rlLog) > 0 /\ rlLog[Len(rlLog)].ip = ip /\ rlLog[Len(rlLog)].opened) =>
              rateLimitMap[ip] = [count |-> 1, resetTime |-> rlLog[Len(rlLog)].now + 60000]

\* A client accepted up to the limit, the last time exactly at resetTime, then
\* rejected, then accepted again one millisecond after the window expired.
C20_Witness ==
    /\ Len(rlLog) >= 4
    /\ \E ip \in IPs :
          \E r \in 2..(Len(rlLog) - 1) :
              /\ rlLog[r].ip = ip /\ ~rlLog[r].ok
              /\ \E a \in Accepted(ip) :
                    a < r /\ ~rlLog[a].opened
                    /\ rlLog[a].now = rlLog[WindowOf(ip, a)].now + 60000
              /\ rlLog[Len(rlLog)].ip = ip /\ rlLog[Len(rlLog)].opened
              /\ rlLog[Len(rlLog)].now = rlLog[WindowOf(ip, r)].now + 60001
              /\ rateLimitMap[ip].count = 1


----------------------------------------------------------------------------
(* The mock CV store: handler of pages/api/cv *)

\* session?.user?.email of the request: an email, or none.
NoSession == "none"
Emails == {"ann@example.com", "bob@example.com"}

\* Request bodies: without userEmail, with either user's email, and with an _id
\* of its own as well.
Bodies ==
    {[title |-> "cv"],
     [title |-> "cv", userEmail |-> "ann@example.com"],
     [title |-> "cv", userEmail |-> "bob@example.com"],
     ("title" :> "cv") @@ ("userEmail" :> "ann@example.com") @@ ("_id" :> "1")}

\* Largest number of stored CVs and latest clock reading of a run.
MaxCVs == 2
MaxStoreClock == 1

StoreInit ==
    /\ EllipseIdle /\ HeurIdle /\ PostIdle
    /\ UniformIdle /\ QualityIdle /\ CallsIdle /\ RateIdle /\ PWAIdle
    /\ mockCVs = <<>>
    /\ sClock = 0
    /\ sResponse = <<>>
    /\ sPosted = <<>>

\* The object spread with the body's fields written last: a userEmail of the
\* body replaces the session's.
NewCVBodyLast(data, email, now) ==
    [f \in DOMAIN data \cup {"_id", "userEmail", "createdAt", "updatedAt"} |->
        IF f \in DOMAIN data THEN data[f]
        ELSE IF f = "_id" THEN ToString(now)
        ELSE IF f = "userEmail" THEN email
        ELSE now]

\* { _id: Date.now().toString(), ...data, userEmail: session.user.email,
\*   createdAt: new Date(), updatedAt: new Date() }: later properties win.
NewCV(data, email, now) ==
    [f \in DOMAIN data \cup {"_id", "userEmail", "createdAt", "updatedAt"} |->
        IF f = "userEmail" THEN email
        ELSE IF f \in {"createdAt", "updatedAt"} THEN now
        ELSE IF f \in DOMAIN data THEN data[f]
        ELSE ToString(now)]

\* mockCVs.filter(cv => cv.userEmail === email)
UserCVs(cvs, email) == SelectSeq(cvs, LAMBDA cv : cv["userEmail"] = email)

\* One request: session email (or none), method, body, and the advance of the
\* clock since the previous request.  sResponse keeps who asked and what was
\* answered; sPosted keeps who posted what.
Handler(email, method, data, d) ==
    /\ sClock + d <= MaxStoreClock
    /\ sClock' = sClock + d
    /\ IF email = NoSession
       THEN /\ sResponse' = [email |-> email, method |-> method, status |-> 401,
                             body |-> [error |-> "Unauthorized"]]
            /\ UNCHANGED <<mockCVs, sPosted>>
       ELSE IF method = "GET"
       THEN /\ sResponse' = [email |-> email, method |-> method, status |-> 200,
                             body |-> [success |-> TRUE, cvs |-> UserCVs(mockCVs, email)]]
            /\ UNCHANGED <<mockCVs, sPosted>>
       ELSE IF method = "POST"
       THEN /\ Len(mockCVs) < MaxCVs
            /\ LET newCV == NewCV(data, email, sClock + d)
               IN  /\ mockCVs' = Append(mockCVs, newCV)
                   /\ sResponse' = [email |-> email, method |-> method, status |-> 201,
                                    body |-> [success |-> TRUE, cv |-> newCV]]
            /\ sPosted' = Append(sPosted, [email |-> email, body |-> data])
       ELSE /\ sResponse' = [email |-> email, method |-> method, status |-> 405,
                             body |-> [error |-> "Method not allowed"]]
            /\ UNCHANGED <<mockCVs, sPosted>>
    /\ UNCHANGED <<ellipseVars, heurVars, postVars,
                   uniformVars, qualityVars, callVars, rateVars, pwaVars>>

StoreNext ==
    \E email \in Emails \cup {NoSession}, method \in {"GET", "POST", "DELETE"},
       data \in Bodies, d \in {0, 1} :
        Handler(email, method, data, d)

SpecStore == StoreInit /\ [][StoreNext]_vars

\* The stored CVs are the accepted POSTs in order, each owned by the session
\* user who posted it whatever userEmail its body carried; a GET answers with
\* exactly the requesting user's CVs; a request without session email is
\* answered 401, and only such a request.
C18_StoreState ==
    /\ Len(mockCVs) = Len(sPosted)
    /\ \A k \in 1..Len(mockCVs) :
          /\ mockCVs[k]["userEmail"] = sPosted[k].email
          /\ mockCVs[k]["title"] = sPosted[k].body["title"]
    /\ sResponse # <<>> =>
          /\ sResponse.status = 401 <=> sResponse.email = NoSession
          /\ (sResponse.method = "GET" /\ sResponse.email # NoSession) =>
                /\ sResponse.status = 200
                /\ \A k \in 1..Len(sResponse.body.cvs) :
                      sResponse.body.cvs[k]["userEmail"] = sResponse.email
                /\ Len(sResponse.body.cvs) =
                      Cardinality({k \in 1..Len(sPosted) : sPosted[k].email = sResponse.email})
                /\ \A k \in 1..Len(mockCVs) :
                      sPosted[k].email = sResponse.email =>
                          \E j \in 1..Len(sResponse.body.cvs) : sResponse.body.cvs[j] = mockCVs[k]
          /\ (sResponse.method = "POST" /\ sResponse.status = 201) =>
                /\ sResponse.body.cv = mockCVs[Len(mockCVs)]
                /\ sResponse.body.cv["userEmail"] = sResponse.email

\* C18: after any sequence of POST and GET requests by any users, a GET returns
\* exactly the stored CVs whose userEmail equals the requesting session's email;
\* every CV created by POST is owned by the session user even when the request
\* body carries a different userEmail; a request without a session email gets 401
\* and leaves the store unchanged.
C18_MockStore ==
    /\ [](C18_StoreState)
    /\ [][sResponse'.email = NoSession => mockCVs' = mockCVs]_vars

\* A user reads back their CVs after both users have posted, one of them with
\* the other's email in the body; the answer leaves out the other user's CV.
C18_Witness ==
    /\ sResponse # <<>>
    /\ sResponse.method = "GET" /\ sResponse.status = 200
    /\ Len(sResponse.body.cvs) >= 1
    /\ Len(sResponse.body.cvs) < Len(mockCVs)
    /\ \E k \in 1..Len(sPosted) :
          /\ "userEmail" \in DOMAIN sPosted[k].body
          /\ sPosted[k].body["userEmail"] = sResponse.email
          /\ sPosted[k].email # sResponse.email


----------------------------------------------------------------------------
(* The install banner: PWAStatus *)

\* The component has rendered with its initial state and its effect is due;
\* localStorage may hold the flag of an earlier visit.
PWAInit ==
    /\ EllipseIdle /\ HeurIdle /\ PostIdle
    /\ UniformIdle /\ QualityIdle /\ CallsIdle /\ RateIdle /\ StoreIdle
    /\ isInstalled = FALSE /\ deferredPrompt = FALSE /\ showInstallPrompt = FALSE
    /\ dismissed = FALSE
    /\ pwaStorage \in {"null", "true"}
    /\ pwaStandalone \in BOOLEAN
    /\ pwaListener = <<>>
    /\ pwaEffectPending = TRUE
    /\ pwaPrompting = FALSE
    /\ pwaDismissRan = FALSE

\* The render: null if (isInstalled || dismissed || !showInstallPrompt ||
\* !deferredPrompt), the banner otherwise.
BannerShown == ~(isInstalled \/ dismissed \/ ~showInstallPrompt \/ ~deferredPrompt)

\* The effect (on mount and when dismissed or isInstalled has changed): the old
\* listener is removed, isInstalled is set from the display mode, dismissed from
\* localStorage, and a listener closing over the dismissed and isInstalled of the
\* render that scheduled the effect is registered.
RunEffect ==
    /\ pwaEffectPending
    /\ pwaListener' = <<dismissed, isInstalled>>
    /\ isInstalled' = pwaStandalone
    /\ dismissed' = (pwaStorage = "true")
    /\ pwaEffectPending' = (isInstalled' # isInstalled \/ dismissed' # dismissed)
    /\ UNCHANGED <<deferredPrompt, showInstallPrompt, pwaStorage, pwaStandalone,
                   pwaPrompting, pwaDismissRan, ellipseVars, heurVars, postVars,
                   uniformVars, qualityVars, callVars, rateVars, storeVars>>

\* handleBeforeInstallPrompt of the registered listener.
BeforeInstallPrompt ==
    /\ pwaListener # <<>>
    /\ deferredPrompt' = TRUE
    /\ showInstallPrompt' = IF ~pwaListener[1] /\ ~pwaListener[2] THEN TRUE
                            ELSE showInstallPrompt
    /\ UNCHANGED <<isInstalled, dismissed, pwaStorage, pwaStandalone, pwaListener,
                   pwaEffectPending, pwaPrompting, pwaDismissRan, ellipseVars, heurVars, postVars,
                   uniformVars, qualityVars, callVars, rateVars, storeVars>>

\* handleInstallClick up to its first await (the Install button exists only
\* while the banner is shown).
InstallClick ==
    /\ BannerShown
    /\ ~pwaPrompting
    /\ pwaPrompting' = deferredPrompt
    /\ UNCHANGED <<isInstalled, deferredPrompt, showInstallPrompt, dismissed, pwaStorage,
                   pwaStandalone, pwaListener, pwaEffectPending, pwaDismissRan,
                   ellipseVars, heurVars, postVars,
                   uniformVars, qualityVars, callVars, rateVars, storeVars>>

\* handleInstallClick after the awaits: the user's choice, or an error of
\* prompt() caught by the handler.
InstallChoice(outcome) ==
    /\ pwaPrompting
    /\ pwaPrompting' = FALSE
    /\ isInstalled' = IF outcome = "accepted" THEN TRUE ELSE isInstalled
    /\ showInstallPrompt' = IF outcome = "accepted" THEN FALSE ELSE showInstallPrompt
    /\ deferredPrompt' = IF outcome = "error" THEN deferredPrompt ELSE FALSE
    /\ pwaEffectPending' = (pwaEffectPending \/ isInstalled' # isInstalled)
    /\ UNCHANGED <<dismissed, pwaStorage, pwaStandalone, pwaListener, pwaDismissRan,
                   ellipseVars, heurVars, postVars,
                   uniformVars, qualityVars, callVars, rateVars, storeVars>>

\* The dismissal kept in React state only.
HandleDismissNotStored ==
    /\ BannerShown
    /\ showInstallPrompt' = FALSE
    /\ dismissed' = TRUE
    /\ pwaDismissRan' = TRUE
    /\ pwaEffectPending' = TRUE
    /\ UNCHANGED <<isInstalled, deferredPrompt, pwaStorage, pwaStandalone, pwaListener,
                   pwaPrompting, ellipseVars, heurVars, postVars,
                   uniformVars, qualityVars, callVars, rateVars, storeVars>>

\* handleDismiss (the X and 'Not now' buttons exist only while the banner is
\* shown).
HandleDismiss ==
    /\ BannerShown
    /\ showInstallPrompt' = FALSE
    /\ dismissed' = TRUE
    /\ pwaStorage' = "true"
    /\ pwaDismissRan' = TRUE
    /\ pwaEffectPending' = TRUE
    /\ UNCHANGED <<isInstalled, deferredPrompt, pwaStandalone, pwaListener,
                   pwaPrompting, ellipseVars, heurVars, postVars,
                   uniformVars, qualityVars, callVars, rateVars, storeVars>>

\* The app starts or stops running in standalone display mode.
DisplayModeChange ==
    /\ pwaStandalone' = ~pwaStandalone
    /\ UNCHANGED <<isInstalled, deferredPrompt, showInstallPrompt, dismissed, pwaStorage,
                   pwaListener, pwaEffectPending, pwaPrompting, pwaDismissRan,
                   ellipseVars, heurVars, postVars,
                   uniformVars, qualityVars, callVars, rateVars, storeVars>>

\* The page is reloaded: the component unmounts (its listener is removed) and
\* mounts again with the initial state; localStorage persists.
Reload ==
    /\ isInstalled' = FALSE /\ deferredPrompt' = FALSE /\ showInstallPrompt' = FALSE
    /\ dismissed' = FALSE
    /\ pwaListener' = <<>>
    /\ pwaEffectPending' = TRUE
    /\ pwaPrompting' = FALSE
    /\ UNCHANGED <<pwaStorage, pwaStandalone, pwaDismissRan, ellipseVars, heurVars, postVars,
                   uniformVars, qualityVars, callVars, rateVars, storeVars>>

PWANext ==
    \/ RunEffect
    \/ BeforeInstallPrompt
    \/ InstallClick
    \/ \E outcome \in {"accepted", "dismissed", "error"} : InstallChoice(outcome)
    \/ HandleDismiss
    \/ DisplayModeChange
    \/ Reload

SpecPWA == PWAInit /\ [][PWANext]_vars

\* C19: the banner is shown only when the app is not installed, the prompt was
\* not dismissed, showInstallPrompt is true and a deferred beforeinstallprompt
\* event is held; once handleDismiss has run the banner is never shown again,
\* whatever events follow, and 'pwa-install-dismissed' = 'true' is stored.
C19_Banner ==
    /\ BannerShown =>
          ~isInstalled /\ ~dismissed /\ showInstallPrompt /\ deferredPrompt
    /\ pwaDismissRan => ~BannerShown /\ pwaStorage = "true"

\* After a dismissal a further beforeinstallprompt event, handled by the
\* listener registered before it, has set showInstallPrompt again while an event
\* is held and the app is not installed: only the dismissal hides the banner.
C19_Witness ==
    /\ pwaDismissRan
    /\ showInstallPrompt /\ deferredPrompt /\ ~isInstalled
    /\ dismissed
    /\ ~BannerShown


----------------------------------------------------------------------------
(* POST of the edit-photo route and generate_professional_edited_photo *)

\* maxSize = 4 * 1024 * 1024
MaxSize == 4194304

AllowedTypes == {"image/png", "image/jpeg", "image/jpg", "image/webp"}

\* null: what formData.get returns for a missing field.  A prompt that is
\* present is the one-element tuple of its string.
Null == <<>>

\* Characters String.prototype.trim removes (space, tab, line feed, carriage return).
Whitespace == {" ", "\t", "\n", "\r"}

RECURSIVE TrimStart(_)
TrimStart(s) ==
    IF Len(s) > 0 /\ SubSeq(s, 1, 1) \in Whitespace
    THEN TrimStart(SubSeq(s, 2, Len(s)))
    ELSE s

RECURSIVE TrimEnd(_)
TrimEnd(s) ==
    IF Len(s) > 0 /\ SubSeq(s, Len(s), Len(s)) \in Whitespace
    THEN TrimEnd(SubSeq(s, 1, Len(s) - 1))
    ELSE s

\* userPrompt.trim()
Trim(s) == TrimEnd(TrimStart(s))

\* message.includes(pat)
Includes(message, pat) ==
    \E i \in 1..(Len(message) - Len(pat) + 1) : SubSeq(message, i, i + Len(pat) - 1) = pat

\* The JSON responses of the handler (an emoji closing a message is left out).
RateLimited == [status |-> 429, error |-> "Terlalu banyak request untuk edit foto. Tunggu 1 menit ya!"]
NotConfigured == [status |-> 500, error |-> "OpenAI API belum dikonfigurasi. Silakan hubungi administrator."]
EmptyPrompt == [status |-> 400, error |-> "Prompt tidak boleh kosong!"]
NoImage == [status |-> 400, error |-> "File gambar tidak ditemukan!"]
BadType == [status |-> 400, error |-> "Format file tidak didukung! Gunakan PNG, JPG, atau WebP."]
TooLarge == [status |-> 400, error |-> "Ukuran file terlalu besar! Maksimal 4MB."]
InternalError == [status |-> 500, error |-> "Terjadi kesalahan internal. Silakan coba lagi."]

\* The checks with the size test ahead of the type test.
ValidateFormSizeFirst(form) ==
    IF form.prompt = Null \/ form.prompt[1] = "" \/ Len(Trim(form.prompt[1])) = 0 THEN EmptyPrompt
    ELSE IF form.image = Null THEN NoImage
    ELSE IF form.image.size > MaxSize THEN TooLarge
    ELSE IF form.image.type \notin AllowedTypes THEN BadType
    ELSE Null

\* The checks of POST on the parsed form, in the order of the code: the
\* response of the first that fails, Null when all pass.
ValidateForm(form) ==
    IF form.prompt = Null \/ form.prompt[1] = "" \/ Len(Trim(form.prompt[1])) = 0 THEN EmptyPrompt
    ELSE IF form.image = Null THEN NoImage
    ELSE IF form.image.type \notin AllowedTypes THEN BadType
    ELSE IF form.image.size > MaxSize THEN TooLarge
    ELSE Null

\* What POST answers for the object generate_professional_edited_photo returned.
GenerateResponse(result) ==
    IF result.success
    THEN [status |-> 200, success |-> TRUE, imageUrl |-> result.imageUrl,
          message |-> "Foto profesional berhasil diedit!"]
    ELSE [status |-> 500,
          error |-> IF result.error = "" THEN "Gagal mengedit foto profesional"
                    ELSE result.error]

\* The messages of the errors thrown by the two helpers.
PrepareFailure == "Failed to prepare image for editing"
MaskFailure == "Failed to create AI-powered editing mask"
TimeoutFailure == "Request timeout after 60 seconds"

GenericBackendMessage == "Terjadi kesalahan internal saat memproses foto"
MaskMessage == "Gagal membuat mask editing. Silakan coba lagi."
ImageMessage == "Gagal memproses gambar. Pastikan file PNG tidak corrupt."
TimeoutMessage == "Timeout: DALL-E 2 membutuhkan waktu terlalu lama. Coba dengan foto yang lebih kecil atau prompt yang lebih sederhana."

\* The outer catch of generate_professional_edited_photo: the user message
\* for a thrown error, chosen by substrings of its message.
BackendErrorMessage(message) ==
    IF Includes(message, "Failed to create editing mask") THEN MaskMessage
    ELSE IF Includes(message, "Failed to prepare image") THEN ImageMessage
    ELSE IF Includes(message, "ENOTFOUND") \/ Includes(message, "network")
    THEN "Masalah koneksi internet. Periksa koneksi Anda."
    ELSE IF Includes(message, "ENOENT")
    THEN "File tidak ditemukan. Silakan upload ulang foto Anda."
    ELSE GenericBackendMessage

\* The inner catch: the user message for a rejection of the race.  apiError is
\* [status, message], status 0 standing for an error without status.
ApiErrorMessage(apiError) ==
    LET has(pat) == Includes(apiError.message, pat)
    IN  IF apiError.status # 0
        THEN CASE apiError.status = 400 ->
                    IF has("image must be a PNG") \/ has("PNG format")
                    THEN "Error format PNG! Sistem sudah mengkonversi otomatis. Coba dengan foto yang berbeda."
                    ELSE IF has("less than 4 MB") \/ has("file size")
                    THEN "Ukuran file terlalu besar! Maksimal 4MB. Silakan kompres foto Anda."
                    ELSE IF has("invalid image") \/ has("malformed")
                    THEN "File gambar corrupt atau tidak valid! Coba dengan foto lain."
                    ELSE IF has("mask") \/ has("transparent")
                    THEN "Error dengan mask editing. Coba dengan foto yang memiliki background jelas."
                    ELSE "Format tidak valid: " \o apiError.message \o ". Coba foto JPG/PNG yang fresh."
               [] apiError.status = 401 ->
                    "API key tidak valid atau habis kredit. Silakan hubungi administrator."
               [] apiError.status = 429 ->
                    "Terlalu banyak request. Silakan tunggu beberapa menit sebelum mencoba lagi."
               [] apiError.status \in {500, 502, 503} ->
                    "Server OpenAI sedang bermasalah. Silakan coba lagi dalam beberapa menit."
               [] OTHER ->
                    "Error API: " \o ToString(apiError.status) \o ". Silakan coba lagi atau hubungi support."
        ELSE IF has("timeout") THEN TimeoutMessage
        ELSE IF has("content policy")
        THEN "Foto tidak sesuai kebijakan OpenAI. Pastikan foto profesional dan sesuai."
        ELSE IF has("network") \/ has("connection")
        THEN "Koneksi bermasalah. Periksa internet Anda dan coba lagi."
        ELSE "Terjadi kesalahan saat mengedit foto. Silakan coba dengan foto yang berbeda."

\* What generate_professional_edited_photo returns when the race settles with
\* outcome: a response with data, a response without, or a rejection.
RaceResult(outcome) ==
    IF outcome.kind = "fulfilled"
    THEN IF Len(outcome.data) > 0
         THEN [success |-> TRUE, imageUrl |-> outcome.data[1]]
         ELSE [success |-> FALSE, error |-> "No edited image generated"]
    ELSE [success |-> FALSE, error |-> ApiErrorMessage(outcome.error)]

\* openai.images.edit has not settled.
Pending == [kind |-> "pending"]

\* The rejection produced by the setTimeout callback.
TimerRejection == [kind |-> "rejected", error |-> [status |-> 0, message |-> TimeoutFailure]]

\* What generate_professional_edited_photo returns when an error with this
\* message is thrown before the race.
BackendResult(message) == [success |-> FALSE, error |-> BackendErrorMessage(message)]

\* Largest number of requests and of races started in a run.
MaxPosts == 3
MaxRaces == 2

\* Milliseconds between two requests (the expiry of a window is the subject
\* of SpecRate).
PostClockSteps == {1}

\* The multipart bodies sent: one that request.formData() cannot parse, and
\* parsed ones that fail each check (some failing later checks as well) or
\* pass them all.
Forms ==
    {[parsed |-> FALSE, prompt |-> Null, image |-> Null],
     [parsed |-> TRUE, prompt |-> Null, image |-> Null],
     [parsed |-> TRUE, prompt |-> <<" \t ">>, image |-> [type |-> "image/gif", size |-> MaxSize + 1]],
     [parsed |-> TRUE, prompt |-> <<"">>, image |-> [type |-> "image/png", size |-> 1000]],
     [parsed |-> TRUE, prompt |-> <<"office">>, image |-> Null],
     [parsed |-> TRUE, prompt |-> <<"office">>, image |-> [type |-> "image/gif", size |-> MaxSize + 1]],
     [parsed |-> TRUE, prompt |-> <<"office">>, image |-> [type |-> "image/png", size |-> MaxSize + 1]],
     [parsed |-> TRUE, prompt |-> <<"office">>, image |-> [type |-> "image/png", size |-> MaxSize]],
     [parsed |-> TRUE, prompt |-> <<" studio ">>, image |-> [type |-> "image/jpeg", size |-> 1000]]}

\* The message of the error imageFile.arrayBuffer() rejects with, "" when it
\* resolves.
BufferErrors == {"", "ENOENT: no such file or directory", "Unexpected end of form"}

\* How openai.images.edit settles.
ApiOutcomes ==
    {[kind |-> "fulfilled", data |-> <<"https://images.example/edited.png">>],
     [kind |-> "fulfilled", data |-> <<>>],
     [kind |-> "rejected", error |-> [status |-> 429, message |-> "Rate limit exceeded"]],
     [kind |-> "rejected", error |-> [status |-> 0, message |-> "Request timed out."]]}

\* The route module is loaded, with or without OPENAI_API_KEY.
PostInit ==
    /\ EllipseIdle /\ HeurIdle
    /\ UniformIdle /\ QualityIdle /\ CallsIdle /\ StoreIdle /\ PWAIdle
    /\ rlMax = EditMaxRequests
    /\ rlNow = 0
    /\ rateLimitMap = [ip \in IPs |-> <<>>]
    /\ rlLog = <<>>
    /\ openai \in BOOLEAN
    /\ pPc = "idle" /\ pReq = <<>> /\ pResponse = <<>> /\ pRaces = <<>>

\* POST up to its first await: the rate check for the caller's address (the
\* x-forwarded-for or x-real-ip header), then the check of the client.
PostReceive(ip, d, form) ==
    /\ pPc \in {"idle", "responded"}
    /\ Len(rlLog) < MaxPosts
    /\ Len(pRaces) < MaxRaces
    /\ CheckRateLimit(ip, d)
    /\ pReq' = [ip |-> ip, form |-> form]
    /\ IF ~rlLog'[Len(rlLog')].ok
       THEN pResponse' = RateLimited /\ pPc' = "responded"
       ELSE IF ~openai
       THEN pResponse' = NotConfigured /\ pPc' = "responded"
       ELSE pResponse' = <<>> /\ pPc' = "parsing"
    /\ UNCHANGED <<openai, pRaces>>

\* POST after request.formData(): a body that cannot be parsed throws into
\* the catch of POST; otherwise the four checks, then the call of
\* generate_professional_edited_photo up to its first await.
PostValidate ==
    /\ pPc = "parsing"
    /\ IF ~pReq.form.parsed
       THEN pResponse' = InternalError /\ pPc' = "responded"
       ELSE IF ValidateForm(pReq.form) # Null
       THEN pResponse' = ValidateForm(pReq.form) /\ pPc' = "responded"
       ELSE IF ~openai
       THEN /\ pResponse' = GenerateResponse([success |-> FALSE,
                                              error |-> "OpenAI API key not configured"])
            /\ pPc' = "responded"
       ELSE pResponse' = <<>> /\ pPc' = "reading"
    /\ UNCHANGED <<openai, pReq, pRaces, ellipseVars, heurVars, uniformVars, qualityVars,
                   callVars, rateVars, storeVars, pwaVars>>

\* Step 1 of generate_professional_edited_photo, the read of the upload: an
\* error goes to the outer catch.
ReadBuffer(message) ==
    /\ pPc = "reading"
    /\ IF message = ""
       THEN pResponse' = <<>> /\ pPc' = "preparing"
       ELSE pResponse' = GenerateResponse(BackendResult(message)) /\ pPc' = "responded"
    /\ UNCHANGED <<openai, pReq, pRaces, ellipseVars, heurVars, uniformVars, qualityVars,
                   callVars, rateVars, storeVars, pwaVars>>

\* Step 1, prepareImageForEditing: it returns the prepared buffer or rethrows
\* whatever was thrown inside it as PrepareFailure.
PrepareImage(failed) ==
    /\ pPc = "preparing"
    /\ IF failed
       THEN /\ pResponse' = GenerateResponse(BackendResult(PrepareFailure))
            /\ pPc' = "responded"
       ELSE pResponse' = <<>> /\ pPc' = "masking"
    /\ UNCHANGED <<openai, pReq, pRaces, ellipseVars, heurVars, uniformVars, qualityVars,
                   callVars, rateVars, storeVars, pwaVars>>

\* Step 2: createBackgroundMask returns the mask buffer, or rethrows what was
\* thrown inside it as MaskFailure; with the mask the race between
\* openai.images.edit and the 60000 ms timer is started.
CreateMask(failed) ==
    /\ pPc = "masking"
    /\ IF failed
       THEN /\ pResponse' = GenerateResponse(BackendResult(MaskFailure))
            /\ pPc' = "responded"
            /\ pRaces' = pRaces
       ELSE /\ pResponse' = <<>>
            /\ pPc' = "racing"
            /\ pRaces' = Append(pRaces, [request |-> Len(rlLog), api |-> Pending,
                                         timer |-> "armed", settled |-> "none",
                                         result |-> Null])
    /\ UNCHANGED <<openai, pReq, ellipseVars, heurVars, uniformVars, qualityVars,
                   callVars, rateVars, storeVars, pwaVars>>

\* Race k's promise is still pending: its settlement resumes the function,
\* which returns its result, and POST answers.
Settle(k, by, outcome) ==
    /\ pRaces' = [pRaces EXCEPT ![k].settled = by, ![k].result = RaceResult(outcome),
                                ![k].api = IF by = "api" THEN outcome ELSE @,
                                ![k].timer = IF by = "timer" THEN "fired" ELSE @]
    /\ pResponse' = GenerateResponse(RaceResult(outcome))
    /\ pPc' = "responded"

\* A race that takes every settlement of the API call, also one after the
\* timer's.
ApiSettlesOverriding(k, outcome) ==
    /\ k \in 1..Len(pRaces)
    /\ pRaces[k].api = Pending
    /\ Settle(k, "api", outcome)
    /\ UNCHANGED <<openai, pReq, ellipseVars, heurVars, uniformVars, qualityVars,
                   callVars, rateVars, storeVars, pwaVars>>

\* openai.images.edit of race k settles.  The race takes the first settlement
\* only.
ApiSettles(k, outcome) ==
    /\ k \in 1..Len(pRaces)
    /\ pRaces[k].api = Pending
    /\ IF pRaces[k].settled = "none"
       THEN Settle(k, "api", outcome)
       ELSE /\ pRaces' = [pRaces EXCEPT ![k].api = outcome]
            /\ UNCHANGED <<pResponse, pPc>>
    /\ UNCHANGED <<openai, pReq, ellipseVars, heurVars, uniformVars, qualityVars,
                   callVars, rateVars, storeVars, pwaVars>>

\* The setTimeout callback of race k runs (the timer is never cleared).
TimerFires(k) ==
    /\ k \in 1..Len(pRaces)
    /\ pRaces[k].timer = "armed"
    /\ IF pRaces[k].settled = "none"
       THEN Settle(k, "timer", TimerRejection)
       ELSE /\ pRaces' = [pRaces EXCEPT ![k].timer = "fired"]
            /\ UNCHANGED <<pResponse, pPc>>
    /\ UNCHANGED <<openai, pReq, ellipseVars, heurVars, uniformVars, qualityVars,
                   callVars, rateVars, storeVars, pwaVars>>

PostNext ==
    \/ \E ip \in IPs, d \in PostClockSteps, form \in Forms : PostReceive(ip, d, form)
    \/ PostValidate
    \/ \E message \in BufferErrors : ReadBuffer(message)
    \/ \E failed \in BOOLEAN : PrepareImage(failed)
    \/ \E failed \in BOOLEAN : CreateMask(failed)
    \/ \E k \in 1..MaxRaces, outcome \in ApiOutcomes : ApiSettles(k, outcome)
    \/ \E k \in 1..MaxRaces : TimerFires(k)

SpecPost == PostInit /\ [][PostNext]_vars

\* The runtime runs every callback that is due: a pending step of the handler,
\* the settlement of the API call, the timer.
SpecPostLive == PostInit /\ [][PostNext]_vars /\ WF_vars(PostNext)

\* The rate check of the request being handled.
RateCheck == rlLog[Len(rlLog)]

\* The prompt field is missing or holds white space only.
BlankPrompt(form) ==
    \/ form.prompt = Null
    \/ \A i \in 1..Len(form.prompt[1]) : SubSeq(form.prompt[1], i, i) \in Whitespace

\* Rate check passed, client configured, and the form passes the four checks.
AllChecksPass ==
    /\ RateCheck.ok
    /\ openai
    /\ pReq.form.parsed
    /\ ~BlankPrompt(pReq.form)
    /\ pReq.form.image # Null
    /\ pReq.form.image.type \in {"image/png", "image/jpeg", "image/jpg", "image/webp"}
    /\ pReq.form.image.size <= 4 * 1024 * 1024

\* C21: the response is that of the first failing check in the order rate limit
\* (429), client configured (500), non-blank prompt (400), image present (400),
\* allowed MIME type (400), size <= 4 MB (400); openai.images.edit is invoked
\* only for a request that passes all of them; and every request that passes
\* the rate check holds a slot of its address's window, whatever the later
\* checks answer.
C21_CheckOrder ==
    /\ pPc = "responded" =>
          LET form == pReq.form
          IN  IF ~RateCheck.ok THEN pResponse = RateLimited
              ELSE IF ~openai THEN pResponse = NotConfigured
              ELSE form.parsed =>
                     IF BlankPrompt(form) THEN pResponse = EmptyPrompt
                     ELSE IF form.image = Null THEN pResponse = NoImage
                     ELSE IF form.image.type \notin
                                {"image/png", "image/jpeg", "image/jpg", "image/webp"}
                     THEN pResponse = BadType
                     ELSE IF form.image.size > 4 * 1024 * 1024 THEN pResponse = TooLarge
                     ELSE pResponse \notin {RateLimited, NotConfigured, EmptyPrompt,
                                            NoImage, BadType, TooLarge}
    /\ pPc \in {"reading", "preparing", "masking", "racing"} => AllChecksPass
    /\ \A k \in 1..Len(pRaces) : pRaces[k].request = Len(rlLog) => AllChecksPass
    /\ Len(pRaces) <= Cardinality({j \in 1..Len(rlLog) : rlLog[j].ok})
    /\ \A ip \in IPs :
          LET held == {j \in Accepted(ip) : j >= WindowOf(ip, Len(rlLog))}
          IN  IF rateLimitMap[ip] = <<>> THEN held = {}
              ELSE rateLimitMap[ip].count = Cardinality(held)

\* A request that passed the rate check was rejected for its file size: it
\* holds the second slot of its window and the image API was never invoked.
C21_Witness ==
    /\ pPc = "responded"
    /\ pResponse = TooLarge
    /\ pReq.form.image.type \in AllowedTypes
    /\ RateCheck.ok
    /\ rateLimitMap[pReq.ip].count = 2
    /\ pRaces = <<>>

\* C22 (as claimed): a failure of createBackgroundMask is answered with the
\* mask-specific message and a failure of prepareImageForEditing with the
\* image-specific one; neither is answered with the generic internal-error
\* message.
C22_FailureMessages ==
    [][/\ pPc = "masking" /\ pPc' = "responded" =>
            /\ pResponse'.status = 500
            /\ pResponse'.error = "Gagal membuat mask editing. Silakan coba lagi."
       /\ pPc = "preparing" /\ pPc' = "responded" =>
            /\ pResponse'.status = 500
            /\ pResponse'.error = "Gagal memproses gambar. Pastikan file PNG tidak corrupt."
       /\ pPc \in {"preparing", "masking"} /\ pPc' = "responded" =>
            pResponse'.error # "Terjadi kesalahan internal saat memproses foto"]_vars

\* The half of C22 about prepareImageForEditing.
C22_ImageFailureMessage ==
    [][pPc = "preparing" /\ pPc' = "responded" =>
            /\ pResponse'.status = 500
            /\ pResponse'.error = "Gagal memproses gambar. Pastikan file PNG tidak corrupt."]_vars

\* The object returned for a timeout.
TimeoutResult ==
    [success |-> FALSE,
     error |-> "Timeout: DALL-E 2 membutuhkan waktu terlalu lama. Coba dengan foto yang lebih kecil atau prompt yang lebih sederhana."]

\* The result of every race agrees with the callback that ran first.
C23_ResultOfFirstSettlement ==
    \A k \in 1..Len(pRaces) :
        LET race == pRaces[k]
        IN  /\ race.settled = "none" =>
                  race.result = Null /\ race.api = Pending /\ race.timer = "armed"
            /\ race.settled = "timer" =>
                  race.timer = "fired" /\ race.result = TimeoutResult
            /\ race.settled = "api" =>
                  /\ race.api # Pending
                  /\ race.result.success =
                        (race.api.kind = "fulfilled" /\ Len(race.api.data) > 0)
                  /\ race.result.success => race.result.imageUrl = race.api.data[1]
            /\ race.request = Len(rlLog) /\ race.settled # "none" =>
                  /\ pPc = "responded"
                  /\ pResponse.status = IF race.result.success THEN 200 ELSE 500
                  /\ ~race.result.success => pResponse.error = race.result.error

\* C23: every call that reaches the race yields a result, and only one: the
\* timeout error if the timer's callback runs before the API call has settled,
\* which a response arriving later never turns into a success; the API's
\* result if the call settles first, which the later firing of the timer
\* leaves as it is.
C23_OneResult ==
    /\ [](C23_ResultOfFirstSettlement)
    /\ [][\A k \in 1..Len(pRaces) :
             pRaces[k].result # Null => pRaces'[k].result = pRaces[k].result]_vars
    /\ [][pPc = "responded" /\ rlLog' = rlLog => pResponse' = pResponse]_vars
    /\ (pPc = "racing") ~> (pPc = "responded")

\* One call timed out and its response arrived afterwards, with data; another
\* got its response first and its timer has fired since.
C23_Witness ==
    /\ Len(pRaces) = 2
    /\ pRaces[1].settled = "timer" /\ pRaces[1].api.kind = "fulfilled"
    /\ Len(pRaces[1].api.data) > 0 /\ ~pRaces[1].result.success
    /\ pRaces[2].settled = "api" /\ pRaces[2].timer = "fired"
    /\ pRaces[2].result.success
    /\ pResponse.status = 200

----------------------------------------------------------------------------
(* The outermost ring of the classifier's mask *)

\* The pixels with border distance 0.
Ring(w, h) ==
    {i \in Pixels(w, h) : i % w = 0 \/ i \div w = 0 \/ i % w = w - 1 \/ i \div w = h - 1}

\* C25: for every input, a pixel of the outermost ring has edge value 0 and a
\* colour score that is never negative, hence a score of at least 0.3 + 0.4; it
\* is emitted transparent, stays transparent through thresholding, and the
\* smoothing pass leaves it as thresholded: its alpha in the final mask is 0.
C25_RingTransparent ==
    hImage # <<>> =>
        \A i \in Ring(hW, hH) :
            /\ hPc \in {"edges", "scored", "raw", "cleaned", "returned"} => hEdge[i] = 0
            /\ hPc \in {"scored", "raw", "cleaned", "returned"} => hBackground[i] >= 0
            /\ hPc \in {"raw", "cleaned", "returned"} => hRaw[i] = <<0, 0, 0, 0>>
            /\ hPc \in {"cleaned", "returned"} =>
                  /\ hCleaned[i] = <<0, 0, 0, 0>>
                  /\ hMask[i] = hCleaned[i]
                  /\ hMask[i][4] = 0

\* A returned mask in which a ring pixel, of edge value 0, touches a protected
\* interior pixel and is transparent.
C25_Witness ==
    /\ hImage # <<>> /\ hPc = "returned"
    /\ \E i \in Ring(hW, hH) :
          \E j \in Interior(hW, hH) :
              /\ j \in {i - 1, i + 1, i - hW, i + hW}
              /\ hMask[j][4] = 255
              /\ hEdge[i] = 0
              /\ hMask[i][4] = 0

====
